---- MODULE Spec2Model ----
(***************************************************************************)
(* Verification model of the VRPPD optimisation core of KDP-Algoritmai:    *)
(*   - the exact solver BruteForceAlgorithmJS (branch and bound over       *)
(*     vehicle/order assignments with a memoised TSP subsolver),           *)
(*   - the unoptimized exhaustive solver it is compared with,              *)
(*   - the RCRS constructive heuristic,                                    *)
(*   - the parallel simulated annealing coordinator and its workers.       *)
(*                                                                         *)
(* Numbers.  Distances are integers: locations are points on a line and    *)
(* the injected distance function is |a - b|.  A load 1/loadFactor is an   *)
(* integer number of units of 2.5e-7, so that the capacity 1.0 is          *)
(* LoadScale units and the 1e-6 tolerance of RCRS is LoadEps units.        *)
(* JavaScript's Infinity is the integer Infinity, larger than every sum    *)
(* the model can form.                                                     *)
(***************************************************************************)
EXTENDS Integers, Sequences, FiniteSets, TLC

VARIABLES
    vehicles,          \* Problem.vehicles: sequence of [id, startLocation, priceKm]
    orders,            \* Problem.orders: sequence of [id, pickupLocation, deliveryLocation, load]
    maxTotalDistance,  \* Problem.constraints.maxTotalDistance
    pc,                \* position of the caller of the exact solvers
    solver,            \* fields of the BruteForceAlgorithmJS instance
    solveResult,       \* what solveSync returned (or that it threw)
    unoptResult,       \* what the unoptimized BruteForceAlgorithm.solve returned
    target,            \* AlgorithmConfig.target of the heuristics
    rcrsRoutes,        \* generateRCRS: routes, vehicle id -> VehicleRoute
    unassignedOrders,  \* generateRCRS: the shuffled copy of problem.orders
    orderPos,          \* generateRCRS: position of `for (const order of unassignedOrders)`
    rcrsSolution,      \* what generateRCRS returned
    saConfig,          \* AlgorithmConfig.saConfig
    initialSolution,   \* solveTarget: the RCRS solution every worker starts from
    globalBest,        \* solveTarget: globalBest
    globalBestEnergy,  \* solveTarget: globalBestEnergy
    totalIterations,   \* solveTarget: totalIterations
    history,           \* solveTarget: history (without the wall-clock time)
    workers,           \* the module-level variables of every worker thread
    toWorker,          \* messages posted to each worker, not yet handled
    toCoord,           \* messages posted by each worker, not yet handled
    resolved,          \* the workers whose promise is resolved
    terminated,        \* the workers worker.terminate() was called on
    psaResult,         \* what solve returned
    receivedEnergies,  \* the energies of the SYNC_REPORT and DONE messages handled
    workerError,       \* per worker: "none", an uncaught error "raised", or "handled"
    posted,            \* per worker: the types of the messages it has posted, in order
    influenced,        \* per worker: its last INFLUENCE_UPDATE, its variables before and after
    turns,             \* per worker: the number of turns its event loop has run
    call,              \* the arguments of a call of a pure function
    returned           \* what that call returned

exactVars == <<maxTotalDistance, solver, solveResult, unoptResult>>

rcrsVars == <<rcrsRoutes, unassignedOrders, orderPos, rcrsSolution>>

psaVars == <<saConfig, initialSolution, globalBest, globalBestEnergy, totalIterations,
             history, workers, toWorker, toCoord, resolved, terminated, psaResult,
             receivedEnergies, workerError, posted, influenced, turns>>

pureVars == <<call, returned>>

vars == <<vehicles, orders, pc, target, exactVars, rcrsVars, psaVars, pureVars>>

----------------------------------------------------------------------------
(* Bounds of the model and program constants.                              *)

MaxVehicles == 2
MaxOrders == 2
GuardMaxSize == 8
MaskBits == 5
MaxRouteOrders == 3

MAX_PROBLEM_SIZE == 7
Infinity == 999999999
LoadScale == 4000000
LoadEps == 4
CacheKeyShift == 20

\* Input sets of the exact solvers' problems: coordinates on the line, prices
\* per km, loads 1/loadFactor (0.5, 1.0 and 2.0) and distance limits.
StartCoords == {1, 3}
PickupCoords == {0, 1}
DeliveryCoords == {1, 3}
PriceKms == {1, 3}
ExactLoads == {LoadScale \div 2, LoadScale, 2 * LoadScale}
DistanceLimits == {1, 1000}

null == [isNull |-> TRUE]

VehicleIdOf(i) == 10 * (i + 1)
OrderIdOf(i) == 100 + i

----------------------------------------------------------------------------
(* Integer bit masks.                                                      *)

RECURSIVE BitAnd(_, _)
BitAnd(a, b) ==
    IF a = 0 \/ b = 0 THEN 0
    ELSE (a % 2) * (b % 2) + 2 * BitAnd(a \div 2, b \div 2)

RECURSIVE BitOr(_, _)
BitOr(a, b) ==
    IF a = 0 THEN b
    ELSE IF b = 0 THEN a
    ELSE (IF a % 2 = 1 \/ b % 2 = 1 THEN 1 ELSE 0) + 2 * BitOr(a \div 2, b \div 2)

RECURSIVE BitXor(_, _)
BitXor(a, b) ==
    IF a = 0 THEN b
    ELSE IF b = 0 THEN a
    ELSE ((a + b) % 2) + 2 * BitXor(a \div 2, b \div 2)

ShiftLeft(a, n) == a * (2 ^ n)

TestBit(mask, i) == (mask \div (2 ^ i)) % 2 = 1

----------------------------------------------------------------------------
(* Distance matrices (utils/DistanceMatrix).                               *)

Abs(x) == IF x < 0 THEN -x ELSE x

distanceCalc(from, to) == Abs(from - to)

getLoc(ords, index) ==
    IF index % 2 = 0 THEN ords[(index \div 2) + 1].pickupLocation
    ELSE ords[(index \div 2) + 1].deliveryLocation

buildDistanceMatrix(ords) ==
    [i \in 0 .. (2 * Len(ords) - 1) |->
        [j \in 0 .. (2 * Len(ords) - 1) |->
            IF i = j THEN 0 ELSE distanceCalc(getLoc(ords, i), getLoc(ords, j))]]

buildVehicleDistances(vehs, ords) ==
    [v \in 0 .. (Len(vehs) - 1) |->
        [o \in 0 .. (Len(ords) - 1) |->
            distanceCalc(vehs[v + 1].startLocation, ords[o + 1].pickupLocation)]]

----------------------------------------------------------------------------
(* Exact solver, inner level: BruteForceAlgorithmJS.solveTSP.              *)
(* ctx carries what the closure tspRecursive reads: vehicleIndex,          *)
(* orderIndices, targetMask, the two matrices, priceKm and the orders.     *)
(* b carries the six locals it writes (bestDistVal .. bestPriceRoute).     *)
(* lastNodeIndex = -1 stands for null.                                     *)

TspPrune(b, currentDist, currentEmpty, currentPrice) ==
    currentDist >= b.bestDistVal /\ currentEmpty >= b.bestEmptyVal
        /\ currentPrice >= b.bestPriceVal

LoadExceededNever(currentLoad, addedLoad) == FALSE

LoadExceeded(currentLoad, addedLoad) == currentLoad + addedLoad > LoadScale

isMovingEmpty(pickedUpMask, deliveredMask) == pickedUpMask = deliveredMask

TspComplete(b, stops, currentDist, currentEmpty, currentPrice) ==
    LET r == [stops |-> stops, totalDistance |-> currentDist,
              emptyDistance |-> currentEmpty, totalPrice |-> currentPrice]
        b1 == IF currentDist < b.bestDistVal
              THEN [b EXCEPT !.bestDistVal = currentDist, !.bestDistRoute = r]
              ELSE b
        b2 == IF currentEmpty < b1.bestEmptyVal
              THEN [b1 EXCEPT !.bestEmptyVal = currentEmpty, !.bestEmptyRoute = r]
              ELSE b1
        b3 == IF currentPrice < b2.bestPriceVal
              THEN [b2 EXCEPT !.bestPriceVal = currentPrice, !.bestPriceRoute = r]
              ELSE b2
    IN b3

RECURSIVE tspRecursive(_, _, _, _, _, _, _, _, _, _)
RECURSIVE tspLoop(_, _, _, _, _, _, _, _, _, _, _, _)

tspRecursive(ctx, b, lastNodeIndex, currentDist, currentEmpty, currentPrice, currentLoad, stops, pickedUpMask, deliveredMask) ==
    IF TspPrune(b, currentDist, currentEmpty, currentPrice) THEN b
    ELSE IF deliveredMask = ctx.targetMask
    THEN TspComplete(b, stops, currentDist, currentEmpty, currentPrice)
    ELSE tspLoop(ctx, b, 1, Len(ctx.orderIndices), lastNodeIndex, currentDist,
                 currentEmpty, currentPrice, currentLoad, stops, pickedUpMask,
                 deliveredMask)

\* `for (const orderIndex of orderIndices)` over the positions lo .. hi in
\* order (the range is halved so that the depth of the evaluation stays
\* logarithmic; the order of the iterations is the loop's).
tspLoop(ctx, b, lo, hi, lastNodeIndex, currentDist, currentEmpty, currentPrice, currentLoad, stops, pickedUpMask, deliveredMask) ==
    IF lo > hi THEN b
    ELSE IF lo < hi
    THEN LET mid == (lo + hi) \div 2
             bLeft == tspLoop(ctx, b, lo, mid, lastNodeIndex, currentDist,
                              currentEmpty, currentPrice, currentLoad, stops,
                              pickedUpMask, deliveredMask)
         IN IF bLeft.bestDistVal <= Infinity   \* bLeft is evaluated first
            THEN tspLoop(ctx, bLeft, mid + 1, hi, lastNodeIndex, currentDist,
                         currentEmpty, currentPrice, currentLoad, stops,
                         pickedUpMask, deliveredMask)
            ELSE bLeft
    ELSE
      LET orderIndex == ctx.orderIndices[lo]
          orderBit == ShiftLeft(1, orderIndex)
          order == ctx.orders[orderIndex + 1]
          load == order.load
      IN IF BitAnd(pickedUpMask, orderBit) = 0
         THEN \* OPTION A: PICKUP
           IF LoadExceeded(currentLoad, load) THEN b
           ELSE
             LET legDistance ==
                     IF lastNodeIndex = -1
                     THEN ctx.S[ctx.vehicleIndex][orderIndex]
                     ELSE ctx.D[lastNodeIndex][2 * orderIndex]
                 newDist == currentDist + legDistance
                 newEmpty == currentEmpty +
                     (IF isMovingEmpty(pickedUpMask, deliveredMask)
                      THEN legDistance ELSE 0)
                 newPrice == currentPrice + legDistance * ctx.priceKm
             IN tspRecursive(ctx, b, 2 * orderIndex, newDist, newEmpty, newPrice,
                     currentLoad + load,
                     Append(stops, [type |-> "pickup", orderId |-> order.id]),
                     BitOr(pickedUpMask, orderBit), deliveredMask)
         ELSE IF BitAnd(deliveredMask, orderBit) = 0
         THEN \* OPTION B: DELIVERY
             LET legDistance == ctx.D[lastNodeIndex][2 * orderIndex + 1]
                 newDist == currentDist + legDistance
                 newEmpty == currentEmpty
                 newPrice == currentPrice + legDistance * ctx.priceKm
             IN tspRecursive(ctx, b, 2 * orderIndex + 1, newDist, newEmpty, newPrice,
                     currentLoad - load,
                     Append(stops, [type |-> "delivery", orderId |-> order.id]),
                     pickedUpMask, BitOr(deliveredMask, orderBit))
         ELSE b

RECURSIVE MaskOfIndices(_, _)
MaskOfIndices(orderIndices, k) ==
    IF k > Len(orderIndices) THEN 0
    ELSE BitOr(ShiftLeft(1, orderIndices[k]), MaskOfIndices(orderIndices, k + 1))

\* The end of solveTSP: null unless all three routes were found.
tspResult(b) ==
    IF b.bestDistRoute = null \/ b.bestEmptyRoute = null \/ b.bestPriceRoute = null
    THEN null
    ELSE [minDistanceRoute |-> b.bestDistRoute,
          minEmptyRoute |-> b.bestEmptyRoute,
          minPriceRoute |-> b.bestPriceRoute]

solveTSP(vehicleIndex, orderIndices, vehicle, ords, D, S) ==
    LET ctx == [vehicleIndex |-> vehicleIndex, orderIndices |-> orderIndices,
                targetMask |-> MaskOfIndices(orderIndices, 1),
                D |-> D, S |-> S, priceKm |-> vehicle.priceKm, orders |-> ords]
        b0 == [bestDistVal |-> Infinity, bestEmptyVal |-> Infinity,
               bestPriceVal |-> Infinity, bestDistRoute |-> null,
               bestEmptyRoute |-> null, bestPriceRoute |-> null]
    IN tspResult(tspRecursive(ctx, b0, -1, 0, 0, 0, 0, <<>>, 0, 0))

----------------------------------------------------------------------------
(* Exact solver, outer level: BruteForceAlgorithmJS.                       *)
(* st is the record of the instance's fields; every method that writes a   *)
(* field returns the new st.                                               *)

EmptyRoutes == [id \in {} |-> null]

emptySolution ==
    [routes |-> EmptyRoutes, emptyDistance |-> Infinity,
     totalDistance |-> Infinity, totalPrice |-> Infinity]

\* The fields of a freshly constructed instance.
NewSolver ==
    [bestDistance |-> Infinity, bestPrice |-> Infinity, bestEmpty |-> Infinity,
     bestDistanceSolution |-> null, bestPriceSolution |-> null,
     bestEmptySolution |-> null,
     routeCache |-> [k \in {} |-> null],
     distancesMat |-> <<>>, vehicleStartDistancesMat |-> <<>>]

getRouteCacheKey(index, mask) == BitOr(ShiftLeft(index, CacheKeyShift), mask)

\* The masks iterateAllSubsets hands to its callback, in order: at most n
\* successive values of `submask`, each obtained from the one before by
\* (submask - 1) & remainingMask, stopping at 0. The run is built in two
\* halves so that the depth of the evaluation stays logarithmic.
RECURSIVE SubmaskRun(_, _, _)
SubmaskRun(submask, remainingMask, n) ==
    IF submask <= 0 \/ n <= 0 THEN <<>>
    ELSE IF n = 1 THEN <<submask>>
    ELSE LET half == n \div 2
             left == SubmaskRun(submask, remainingMask, half)
             next == BitAnd(left[Len(left)] - 1, remainingMask)
         IN IF Len(left) < half THEN left
            ELSE left \o SubmaskRun(next, remainingMask, n - half)

\* A mask m has at most m positive submasks.
SubmaskSeq(submask, remainingMask) == SubmaskRun(submask, remainingMask, remainingMask)

iterateAllSubsetsOfFull(assignmentMask, fullMask) == SubmaskSeq(fullMask, fullMask)

\* An enumeration that starts below the remaining mask itself.
iterateProperSubsets(assignmentMask, fullMask) ==
    LET remainingMask == BitXor(fullMask, assignmentMask)
    IN IF remainingMask = 0 THEN <<>>
       ELSE Tail(SubmaskSeq(remainingMask, remainingMask))

iterateAllSubsets(assignmentMask, fullMask) ==
    LET remainingMask == BitXor(fullMask, assignmentMask)
    IN SubmaskSeq(remainingMask, remainingMask)

RECURSIVE reconstructLoop(_, _, _, _, _, _)
reconstructLoop(st, assignments, vehs, type, i, acc) ==
    IF i >= Len(vehs) THEN acc
    ELSE
      LET mask == assignments[i + 1]
          cacheKey == getRouteCacheKey(i, mask)
          cached == IF cacheKey \in DOMAIN st.routeCache
                    THEN st.routeCache[cacheKey] ELSE null
          r == IF type = "dist" THEN cached.minDistanceRoute
               ELSE IF type = "price" THEN cached.minPriceRoute
               ELSE cached.minEmptyRoute
          acc1 == IF mask > 0 /\ cached # null
                  THEN [routes |-> (vehs[i + 1].id :> r) @@ acc.routes,
                        totalDistance |-> acc.totalDistance + r.totalDistance,
                        totalPrice |-> acc.totalPrice + r.totalPrice,
                        emptyDistance |-> acc.emptyDistance + r.emptyDistance]
                  ELSE acc
      IN reconstructLoop(st, assignments, vehs, type, i + 1, acc1)

\* A reconstruction that keeps an empty route for a vehicle without orders.
reconstructWithEmptyRoutes(st, assignments, vehs, type) ==
    LET s == reconstructLoop(st, assignments, vehs, type, 0,
                [routes |-> EmptyRoutes, totalDistance |-> 0, totalPrice |-> 0,
                 emptyDistance |-> 0])
    IN [s EXCEPT !.routes =
            [id \in {vehs[k].id : k \in 1 .. Len(vehs)} |->
                IF id \in DOMAIN s.routes THEN s.routes[id]
                ELSE [stops |-> <<>>, totalDistance |-> 0, emptyDistance |-> 0,
                      totalPrice |-> 0]]]

reconstructSolution(st, assignments, vehs, type) ==
    reconstructLoop(st, assignments, vehs, type, 0,
        [routes |-> EmptyRoutes, totalDistance |-> 0, totalPrice |-> 0,
         emptyDistance |-> 0])

\* The three `if` statements of updateBestSolutions, in order.
updateBestDistance(st, current, assignments, vehs) ==
    IF current.distSum < st.bestDistance
    THEN [st EXCEPT !.bestDistance = current.distSum,
                    !.bestDistanceSolution =
                        reconstructSolution(st, assignments, vehs, "dist")]
    ELSE st

updateBestPrice(st, current, assignments, vehs) ==
    IF current.priceSum < st.bestPrice
    THEN [st EXCEPT !.bestPrice = current.priceSum,
                    !.bestPriceSolution =
                        reconstructSolution(st, assignments, vehs, "price")]
    ELSE st

updateBestEmpty(st, current, assignments, vehs) ==
    IF current.emptySum < st.bestEmpty
    THEN [st EXCEPT !.bestEmpty = current.emptySum,
                    !.bestEmptySolution =
                        reconstructSolution(st, assignments, vehs, "empty")]
    ELSE st

updateBestSolutions(st, current, assignments, vehs) ==
    updateBestEmpty(
        updateBestPrice(
            updateBestDistance(st, current, assignments, vehs),
            current, assignments, vehs),
        current, assignments, vehs)

RECURSIVE IndicesOfMask(_, _, _)
IndicesOfMask(mask, i, n) ==
    IF i >= n THEN <<>>
    ELSE (IF TestBit(mask, i) THEN <<i>> ELSE <<>>) \o IndicesOfMask(mask, i + 1, n)

\* this.routeCache.set(cacheKey, solution); return solution
cacheRoute(st, cacheKey, solution) ==
    <<[st EXCEPT !.routeCache = (cacheKey :> solution) @@ st.routeCache], solution>>

\* Returns <<new st, TSPResult or null>>.
getBestRoute(st, vehicleIndex, mask, vehs, ords) ==
    LET cacheKey == getRouteCacheKey(vehicleIndex, mask)
    IN IF cacheKey \in DOMAIN st.routeCache
       THEN <<st, st.routeCache[cacheKey]>>
       ELSE cacheRoute(st, cacheKey,
                solveTSP(vehicleIndex, IndicesOfMask(mask, 0, Len(ords)),
                         vehs[vehicleIndex + 1], ords, st.distancesMat,
                         st.vehicleStartDistancesMat))

OuterPruneAny(st, currentSolution) ==
    currentSolution.distSum >= st.bestDistance
        \/ currentSolution.priceSum >= st.bestPrice
        \/ currentSolution.emptySum >= st.bestEmpty

OuterPrune(st, currentSolution) ==
    currentSolution.distSum >= st.bestDistance
        /\ currentSolution.priceSum >= st.bestPrice
        /\ currentSolution.emptySum >= st.bestEmpty

RECURSIVE solveRecursive(_, _, _, _, _, _, _, _)
RECURSIVE subsetsLoop(_, _, _, _, _, _, _, _, _, _, _)
RECURSIVE solveCurrentIteration(_, _, _, _, _, _, _, _, _)

solveRecursive(st, vehicleIndex, assignmentMask, currentSolution, assignments, ords, vehs, fullMask) ==
    IF OuterPrune(st, currentSolution) THEN st
    ELSE IF assignmentMask = fullMask
    THEN updateBestSolutions(st, currentSolution, assignments, vehs)
    ELSE IF vehicleIndex >= Len(vehs) THEN st
    ELSE
      LET masks == iterateAllSubsets(assignmentMask, fullMask)
          s1 == subsetsLoop(st, masks, 1, Len(masks),
                            vehicleIndex, assignmentMask, currentSolution,
                            assignments, ords, vehs, fullMask)
      IN \* Case: vehicle takes NO orders (empty mask)
         solveRecursive(s1, vehicleIndex + 1, assignmentMask, currentSolution,
                        assignments, ords, vehs, fullMask)

\* iterateAllSubsets with the callback solveCurrentIteration, applied to the
\* masks at positions lo .. hi in order (the range is halved so that the depth
\* of the evaluation stays logarithmic; the order of the calls is the loop's).
subsetsLoop(st, masks, lo, hi, vehicleIndex, assignmentMask, currentSolution, assignments, ords, vehs, fullMask) ==
    IF lo > hi THEN st
    ELSE IF lo < hi
    THEN LET mid == (lo + hi) \div 2
             sLeft == subsetsLoop(st, masks, lo, mid, vehicleIndex, assignmentMask,
                                  currentSolution, assignments, ords, vehs, fullMask)
         IN IF sLeft.bestDistance <= Infinity   \* sLeft is evaluated first
            THEN subsetsLoop(sLeft, masks, mid + 1, hi, vehicleIndex,
                             assignmentMask, currentSolution, assignments, ords,
                             vehs, fullMask)
            ELSE sLeft
    ELSE solveCurrentIteration(
            getBestRoute(st, vehicleIndex, masks[lo], vehs, ords),
            masks[lo], vehicleIndex, assignmentMask, currentSolution,
            assignments, ords, vehs, fullMask)

\* The callback solveCurrentIteration(mask) past its getBestRoute call, whose
\* outcome is got = <<new st, routeResult>>.
solveCurrentIteration(got, mask, vehicleIndex, assignmentMask, currentSolution, assignments, ords, vehs, fullMask) ==
    IF got[2] # null
    THEN solveRecursive(got[1], vehicleIndex + 1,
            BitOr(assignmentMask, mask),
            [distSum |-> currentSolution.distSum
                            + got[2].minDistanceRoute.totalDistance,
             priceSum |-> currentSolution.priceSum
                            + got[2].minPriceRoute.totalPrice,
             emptySum |-> currentSolution.emptySum
                            + got[2].minEmptyRoute.emptyDistance],
            [assignments EXCEPT ![vehicleIndex + 1] = mask],
            ords, vehs, fullMask)
    ELSE got[1]

ProblemTooLargeOr(ords, vehs) ==
    Len(ords) > MAX_PROBLEM_SIZE /\ Len(vehs) > MAX_PROBLEM_SIZE

ProblemTooLarge(ords, vehs) ==
    Len(ords) > MAX_PROBLEM_SIZE \/ Len(vehs) > MAX_PROBLEM_SIZE

\* `this.bestDistanceSolution || emptySolution`
orEmptySolution(s) == IF s = null THEN emptySolution ELSE s

\* The AlgorithmSolution returned from the fields st.
algorithmSolution(st) ==
    [bestDistanceSolution |-> orEmptySolution(st.bestDistanceSolution),
     bestPriceSolution |-> orEmptySolution(st.bestPriceSolution),
     bestEmptySolution |-> orEmptySolution(st.bestEmptySolution)]

searchResult(st) == <<st, algorithmSolution(st)>>

\* solveSync past the size guard: <<new st, returned AlgorithmSolution>>.
solveSyncSearch(st, ords, vehs) ==
    LET N == Len(ords)
        V == Len(vehs)
        s0 == [bestDistance |-> Infinity, bestPrice |-> Infinity,
               bestEmpty |-> Infinity,
               bestDistanceSolution |-> null, bestPriceSolution |-> null,
               bestEmptySolution |-> null,
               routeCache |-> [k \in {} |-> null],
               distancesMat |-> buildDistanceMatrix(ords),
               vehicleStartDistancesMat |-> buildVehicleDistances(vehs, ords)]
    IN searchResult(
            solveRecursive(s0, 0, 0, [distSum |-> 0, priceSum |-> 0, emptySum |-> 0],
                           [i \in 1 .. V |-> 0], ords, vehs, ShiftLeft(1, N) - 1))

----------------------------------------------------------------------------
(* Unoptimized exhaustive solver (brute-force/unoptimized).                *)
(* A JavaScript Set or Map iterates in insertion order: a Set of order ids *)
(* is the sequence of its members in insertion order, and an assignment    *)
(* Map<vehicleId, Set<orderId>> is a function read in the vehicles' order. *)

getEmptyAssignment(vehs) == [id \in {vehs[i].id : i \in 1 .. Len(vehs)} |-> <<>>]

SetAdd(s, x) == IF \E i \in 1 .. Len(s) : s[i] = x THEN s ELSE Append(s, x)

RECURSIVE generateAllOrderAssignments(_, _)
RECURSIVE assignmentsLoop(_, _, _, _, _)

generateAllOrderAssignments(ords, vehs) ==
    IF Len(ords) = 0 THEN <<getEmptyAssignment(vehs)>>
    ELSE assignmentsLoop(generateAllOrderAssignments(Tail(ords), vehs), 1, 1,
                         Head(ords), vehs)

\* The two nested for loops, from assignment a and vehicle v on.
assignmentsLoop(forRemaining, a, v, currentOrder, vehs) ==
    IF a > Len(forRemaining) THEN <<>>
    ELSE IF v > Len(vehs)
    THEN assignmentsLoop(forRemaining, a + 1, 1, currentOrder, vehs)
    ELSE <<[forRemaining[a] EXCEPT ![vehs[v].id] = SetAdd(@, currentOrder.id)]>>
            \o assignmentsLoop(forRemaining, a, v + 1, currentOrder, vehs)

OrderById(ords, orderId) ==
    ords[CHOOSE i \in 1 .. Len(ords) :
            ords[i].id = orderId /\ \A j \in 1 .. (i - 1) : ords[j].id # orderId]

partitionOrders(ords, orderIds) ==
    [pickupLocations |->
        [k \in 1 .. Len(orderIds) |->
            [type |-> "pickup", orderId |-> orderIds[k],
             location |-> OrderById(ords, orderIds[k]).pickupLocation,
             load |-> OrderById(ords, orderIds[k]).load]],
     deliveryLocations |->
        [k \in 1 .. Len(orderIds) |->
            [type |-> "delivery", orderId |-> orderIds[k],
             location |-> OrderById(ords, orderIds[k]).deliveryLocation,
             load |-> OrderById(ords, orderIds[k]).load]]]

RemoveAt(s, i) == SubSeq(s, 1, i - 1) \o SubSeq(s, i + 1, Len(s))

\* A search that lets a delivery come before its pickup.
deliveryBeforePickupNever(currentLocation, inTransitItems) == FALSE

\* `currentLocation.type === 'delivery' && !inTransitItems.has(currentLocation.orderId)`
deliveryBeforePickup(currentLocation, inTransitItems) ==
    /\ currentLocation.type = "delivery"
    /\ currentLocation.orderId \notin inTransitItems

RECURSIVE backtrack(_, _, _, _, _)
\* The routes pushed by backtrack(currentRoute, remainingLocations, .., inTransitItems),
\* its for loop taken from position i on; total is allLocations.length.
backtrack(currentRoute, remainingLocations, inTransitItems, total, i) ==
    IF i = 1 /\ Len(currentRoute) = total THEN <<currentRoute>>
    ELSE IF i > Len(remainingLocations) THEN <<>>
    ELSE
      LET currentLocation == remainingLocations[i]
          here ==
            IF deliveryBeforePickup(currentLocation, inTransitItems)
            THEN <<>>
            ELSE backtrack(Append(currentRoute, currentLocation),
                    RemoveAt(remainingLocations, i),
                    IF currentLocation.type = "pickup"
                    THEN inTransitItems \cup {currentLocation.orderId}
                    ELSE inTransitItems \ {currentLocation.orderId},
                    total, 1)
      IN here \o backtrack(currentRoute, remainingLocations, inTransitItems,
                           total, i + 1)

generateAllVehicleRoutes(ords, orderIds) ==
    LET p == partitionOrders(ords, orderIds)
        allLocations == p.pickupLocations \o p.deliveryLocations
    IN backtrack(<<>>, allLocations, {}, Len(allLocations), 1)

StopOf(loc) == [type |-> loc.type, orderId |-> loc.orderId]

RECURSIVE followLoop(_, _, _, _, _, _, _, _)
\* followRoute's for loop from index i (1-based position i+1) on.
followLoop(vehicle, locations, maxDist, i, totalDistance, emptyDistance, currentLoad, inTransit) ==
    IF i >= Len(locations)
    THEN [threw |-> "", totalDistance |-> totalDistance,
          emptyDistance |-> emptyDistance,
          totalPrice |-> totalDistance * vehicle.priceKm,
          stops |-> [k \in 1 .. Len(locations) |-> StopOf(locations[k])]]
    ELSE
      LET prev == locations[i]
          cur == locations[i + 1]
          currentDistance == distanceCalc(prev.location, cur.location)
          newTotal == totalDistance + currentDistance
          newLoad == IF cur.type = "pickup" THEN currentLoad + cur.load
                     ELSE currentLoad - cur.load
          newTransit == IF prev.type = "pickup" THEN inTransit \cup {prev.orderId}
                        ELSE inTransit \ {prev.orderId}
          newEmpty == IF newTransit = {} THEN emptyDistance + currentDistance
                      ELSE emptyDistance
      IN IF newTotal > maxDist THEN [threw |-> "MAX_DISTANCE_EXCEEDED"]
         ELSE IF newLoad > LoadScale THEN [threw |-> "CAPACITY_EXCEEDED"]
         ELSE followLoop(vehicle, locations, maxDist, i + 1, newTotal, newEmpty,
                         newLoad, newTransit)

followRoute(vehicle, locations, maxDist) ==
    IF Len(locations) = 0
    THEN [threw |-> "", totalDistance |-> 0, emptyDistance |-> 0, totalPrice |-> 0,
          stops |-> <<>>]
    ELSE
      LET totalDistance == distanceCalc(vehicle.startLocation, locations[1].location)
          currentLoad == locations[1].load
      IN IF totalDistance > maxDist THEN [threw |-> "MAX_DISTANCE_EXCEEDED"]
         ELSE IF currentLoad > LoadScale THEN [threw |-> "CAPACITY_EXCEEDED"]
         ELSE followLoop(vehicle, locations, maxDist, 1, totalDistance,
                         totalDistance, currentLoad, {})

VehicleById(vehs, vehicleId) ==
    vehs[CHOOSE i \in 1 .. Len(vehs) :
            vehs[i].id = vehicleId /\ \A j \in 1 .. (i - 1) : vehs[j].id # vehicleId]

ZeroSolution ==
    [totalDistance |-> 0, emptyDistance |-> 0, totalPrice |-> 0, routes |-> EmptyRoutes]

\* The route entry written from what followRoute returned.
routeEntry(f) ==
    [emptyDistance |-> f.emptyDistance, totalDistance |-> f.totalDistance,
     totalPrice |-> f.totalPrice, stops |-> f.stops]

\* The three `if` statements of the try block, in order; m holds the three
\* running minima and the route entries written so far for this vehicle.
keepMinDistance(m, f) ==
    IF f.totalDistance < m.minRouteDistance
    THEN [m EXCEPT !.minRouteDistance = f.totalDistance, !.distRoute = routeEntry(f)]
    ELSE m

keepMinEmpty(m, f) ==
    IF f.emptyDistance < m.minRouteEmptyDistance
    THEN [m EXCEPT !.minRouteEmptyDistance = f.emptyDistance,
                   !.emptyRoute = routeEntry(f)]
    ELSE m

keepMinPrice(m, f) ==
    IF f.totalPrice < m.minRoutePrice
    THEN [m EXCEPT !.minRoutePrice = f.totalPrice, !.priceRoute = routeEntry(f)]
    ELSE m

\* The try/catch around followRoute: a thrown error skips the route.
tryRoute(m, f) ==
    IF f.threw # "" THEN m
    ELSE keepMinPrice(keepMinEmpty(keepMinDistance(m, f), f), f)

RECURSIVE unoptRoutesLoop(_, _, _, _, _, _)
\* `for (const route of routes)` from position k on.
unoptRoutesLoop(vehicle, routes, maxDist, k, m, ords) ==
    IF k > Len(routes) THEN m
    ELSE unoptRoutesLoop(vehicle, routes, maxDist, k + 1,
                         tryRoute(m, followRoute(vehicle, routes[k], maxDist)), ords)

AddRoute(sol, vehicleId, route, minVal) ==
    IF route = null THEN sol
    ELSE [routes |-> (vehicleId :> route) @@ sol.routes,
          totalDistance |-> IF minVal < Infinity
                            THEN sol.totalDistance + route.totalDistance
                            ELSE sol.totalDistance,
          emptyDistance |-> IF minVal < Infinity
                            THEN sol.emptyDistance + route.emptyDistance
                            ELSE sol.emptyDistance,
          totalPrice |-> IF minVal < Infinity
                         THEN sol.totalPrice + route.totalPrice
                         ELSE sol.totalPrice]

\* The three current solutions after the routes loop of one vehicle left m.
addRoutes(cur, vehicleId, m) ==
    [dist |-> AddRoute(cur.dist, vehicleId, m.distRoute, m.minRouteDistance),
     empty |-> AddRoute(cur.empty, vehicleId, m.emptyRoute, m.minRouteEmptyDistance),
     price |-> AddRoute(cur.price, vehicleId, m.priceRoute, m.minRoutePrice)]

\* minRouteDistance, minRouteEmptyDistance, minRoutePrice before the routes loop.
NoMinima ==
    [minRouteDistance |-> Infinity, minRouteEmptyDistance |-> Infinity,
     minRoutePrice |-> Infinity, distRoute |-> null,
     emptyRoute |-> null, priceRoute |-> null]

RECURSIVE unoptVehiclesLoop(_, _, _, _, _, _)
\* `for (const [vehicleId, orderIds] of assignment.entries())` from vehicle v on;
\* cur holds currentDistanceSolution, currentEmptySolution, currentPriceSolution.
unoptVehiclesLoop(assignment, v, cur, ords, vehs, maxDist) ==
    IF v > Len(vehs) THEN cur
    ELSE unoptVehiclesLoop(assignment, v + 1,
            addRoutes(cur, vehs[v].id,
                unoptRoutesLoop(VehicleById(vehs, vehs[v].id),
                    generateAllVehicleRoutes(ords, assignment[vehs[v].id]),
                    maxDist, 1, NoMinima, ords)),
            ords, vehs, maxDist)

\* The three `if` statements that close the body of the assignments loop.
keepBestDistance(st, cur) ==
    IF cur.dist.totalDistance > 0 /\ cur.dist.totalDistance < st.bestDistance
    THEN [st EXCEPT !.bestDistance = cur.dist.totalDistance,
                    !.bestDistanceSolution = cur.dist]
    ELSE st

keepBestEmpty(st, cur) ==
    IF cur.empty.emptyDistance > 0 /\ cur.empty.emptyDistance < st.bestEmpty
    THEN [st EXCEPT !.bestEmpty = cur.empty.emptyDistance,
                    !.bestEmptySolution = cur.empty]
    ELSE st

keepBestPrice(st, cur) ==
    IF cur.price.totalPrice > 0 /\ cur.price.totalPrice < st.bestPrice
    THEN [st EXCEPT !.bestPrice = cur.price.totalPrice,
                    !.bestPriceSolution = cur.price]
    ELSE st

keepBest(st, cur) == keepBestPrice(keepBestEmpty(keepBestDistance(st, cur), cur), cur)

RECURSIVE unoptAssignmentsLoop(_, _, _, _, _, _)
\* `for (const assignment of allOrderAssignments)` from position a on.
unoptAssignmentsLoop(all, a, st, ords, vehs, maxDist) ==
    IF a > Len(all) THEN st
    ELSE unoptAssignmentsLoop(all, a + 1,
            keepBest(st, unoptVehiclesLoop(all[a], 1,
                            [dist |-> ZeroSolution, empty |-> ZeroSolution,
                             price |-> ZeroSolution], ords, vehs, maxDist)),
            ords, vehs, maxDist)

\* BruteForceAlgorithm.solve of the unoptimized solver.
unoptimizedSolve(ords, vehs, maxDist) ==
    LET s0 == [bestDistance |-> Infinity, bestPrice |-> Infinity,
               bestEmpty |-> Infinity, bestDistanceSolution |-> null,
               bestPriceSolution |-> null, bestEmptySolution |-> null]
    IN algorithmSolution(
            unoptAssignmentsLoop(generateAllOrderAssignments(ords, vehs), 1, s0,
                                 ords, vehs, maxDist))

----------------------------------------------------------------------------
(* RCRS constructive heuristic: generateRCRS and its helpers.              *)
(* An insertion cost is kept in fifths (CostScale), so that the surcharge  *)
(* 0.4 * startToPickup of the EMPTY target is an integer.                  *)

MAX_LOAD == LoadScale
CostScale == 5
EmptyStartWeight == 2

Targets == {"DISTANCE", "PRICE", "EMPTY"}

\* orderIdToIndex.get(orderId) and vehicleIdToIndex.get(vehicleId), 0-based.
indexOfOrder(ords, orderId) ==
    CHOOSE i \in 0 .. (Len(ords) - 1) : ords[i + 1].id = orderId

indexOfVehicle(vehs, vehicleId) ==
    CHOOSE i \in 0 .. (Len(vehs) - 1) : vehs[i + 1].id = vehicleId

\* problem.orders.find(o => o.id === orderId), null for undefined.
findOrder(ords, orderId) ==
    IF \E i \in 1 .. Len(ords) : ords[i].id = orderId
    THEN OrderById(ords, orderId) ELSE null

\* stops.splice(index, 0, stop)
splice(stops, index, stop) ==
    SubSeq(stops, 1, index) \o <<stop>> \o SubSeq(stops, index + 1, Len(stops))

pickupStop(orderId) == [orderId |-> orderId, type |-> "pickup"]

deliveryStop(orderId) == [orderId |-> orderId, type |-> "delivery"]

\* shuffleArray: every array the loop can leave, j = floor(random * (i + 1))
\* being any of 0 .. i; shuffleFrom is the loop from index i down.
RECURSIVE shuffleFrom(_, _)
shuffleFrom(array, i) ==
    IF i <= 0 THEN {array}
    ELSE UNION {shuffleFrom([array EXCEPT ![i + 1] = array[j + 1],
                                          ![j + 1] = array[i + 1]], i - 1) :
                    j \in 0 .. i}

shuffleArray(array) == shuffleFrom(array, Len(array) - 1)

routeOverloadedNever(currentLoad) == FALSE

routeOverloadedStrict(currentLoad) == currentLoad > MAX_LOAD

\* isValidRoute: `currentLoad > MAX_LOAD + 1e-6`
routeOverloaded(currentLoad) == currentLoad > MAX_LOAD + LoadEps

\* isValidRoute: the loop over the stops from position k on, then the final test.
RECURSIVE isValidLoop(_, _, _, _, _, _)
isValidLoop(stops, k, pickedUp, delivered, currentLoad, ords) ==
    IF k > Len(stops) THEN Cardinality(pickedUp) = Cardinality(delivered)
    ELSE
      LET stop == stops[k]
          order == findOrder(ords, stop.orderId)
      IN IF order = null THEN FALSE
         ELSE IF stop.type = "pickup"
         THEN IF order.id \in pickedUp THEN FALSE
              ELSE IF routeOverloaded(currentLoad + order.load) THEN FALSE
              ELSE isValidLoop(stops, k + 1, pickedUp \cup {order.id}, delivered,
                               currentLoad + order.load, ords)
         ELSE IF order.id \notin pickedUp THEN FALSE
              ELSE IF order.id \in delivered THEN FALSE
              ELSE IF routeOverloaded(currentLoad - order.load) THEN FALSE
              ELSE isValidLoop(stops, k + 1, pickedUp, delivered \cup {order.id},
                               currentLoad - order.load, ords)

isValidRoute(stops, ords) == isValidLoop(stops, 1, {}, {}, 0, ords)

\* orderMap.get(stop.orderId) * 2 + (stop.type === 'delivery' ? 1 : 0)
nodeOf(stop, ords) ==
    indexOfOrder(ords, stop.orderId) * 2 + (IF stop.type = "delivery" THEN 1 ELSE 0)

\* The leg loop `for (let i = 0; i < stops.length - 1; i++)` of updateRouteStats
\* (estimateInsertionMetrics runs the same loop on tempStops), from i on.
\* emptyBelow is the bound of the rule |currentLoad| < bound for an empty leg.
RECURSIVE legsLoop(_, _, _, _, _, _, _, _)
legsLoop(stops, i, totalDist, emptyDist, currentLoad, emptyBelow, ords, D) ==
    IF i >= Len(stops) - 1
    THEN [totalDist |-> totalDist, emptyDist |-> emptyDist]
    ELSE
      LET from == stops[i + 1]
          to == stops[i + 2]
          d == D[nodeOf(from, ords)][nodeOf(to, ords)]
          nextOrder == OrderById(ords, to.orderId)
      IN legsLoop(stops, i + 1, totalDist + d,
                  emptyDist + (IF Abs(currentLoad) < emptyBelow THEN d ELSE 0),
                  IF to.type = "pickup" THEN currentLoad + nextOrder.load
                  ELSE currentLoad - nextOrder.load,
                  emptyBelow, ords, D)

\* The distances of a stop sequence as updateRouteStats accumulates them:
\* the start leg (always empty), then the leg loop.
routeDistances(stops, vIdx, emptyBelow, ords, D, S) ==
    IF Len(stops) > 0
    THEN LET firstOrderIdx == indexOfOrder(ords, stops[1].orderId)
             startDist == S[vIdx][firstOrderIdx]
         IN legsLoop(stops, 0, startDist, startDist, ords[firstOrderIdx + 1].load,
                     emptyBelow, ords, D)
    ELSE [totalDist |-> 0, emptyDist |-> 0]

estimateInsertionMetrics(route, vehicle, order, pIdx, dIdx, D, S, ords, vehs) ==
    LET tempStops == splice(splice(route.stops, pIdx, pickupStop(order.id)),
                            dIdx, deliveryStop(order.id))
    IN IF ~isValidRoute(tempStops, ords) THEN null
       ELSE LET t == routeDistances(tempStops, indexOfVehicle(vehs, vehicle.id),
                                    LoadEps, ords, D, S)
            IN [deltaTotal |-> t.totalDist - route.totalDistance,
                deltaEmpty |-> t.emptyDist - route.emptyDistance]

updateRouteStats(route, vehicle, ords, vehs, D, S) ==
    LET t == routeDistances(route.stops, indexOfVehicle(vehs, vehicle.id),
                            LoadEps, ords, D, S)
    IN [stops |-> route.stops, totalDistance |-> t.totalDist,
        emptyDistance |-> t.emptyDist, totalPrice |-> t.totalDist * vehicle.priceKm]

\* `cost` of generateRCRS for one slot, in fifths.
insertionCost(tgt, metrics, vehicle, startToPickup) ==
    IF tgt = "PRICE" THEN CostScale * metrics.deltaTotal * vehicle.priceKm
    ELSE IF tgt = "DISTANCE" THEN CostScale * metrics.deltaTotal
    ELSE IF tgt = "EMPTY"
    THEN CostScale * metrics.deltaEmpty + EmptyStartWeight * startToPickup
    ELSE Infinity

\* The slots <<vehicle index, i, j>> the three nested loops of generateRCRS visit.
insertionSlots(rts, vehs) ==
    UNION {{<<v, i, j>> : i \in 0 .. Len(rts[vehs[v + 1].id].stops),
                          j \in 1 .. (Len(rts[vehs[v + 1].id].stops) + 1)} :
                v \in 0 .. (Len(vehs) - 1)}

\* Slot a is visited before slot b.
slotBefore(a, b) ==
    \/ a[1] < b[1]
    \/ a[1] = b[1] /\ a[2] < b[2]
    \/ a[1] = b[1] /\ a[2] = b[2] /\ a[3] < b[3]

\* bestInsertion after the three loops: `cost < bestInsertion.cost` keeps the
\* first visited slot among those of least cost.
bestInsertion(rts, order, tgt, ords, vehs, D, S) ==
    LET slots == {s \in insertionSlots(rts, vehs) : s[3] > s[2]}
        metrics == [s \in slots |->
                        estimateInsertionMetrics(rts[vehs[s[1] + 1].id],
                            vehs[s[1] + 1], order, s[2], s[3], D, S, ords, vehs)]
        cost == [s \in {x \in slots : metrics[x] # null} |->
                        insertionCost(tgt, metrics[s], vehs[s[1] + 1],
                                      S[s[1]][indexOfOrder(ords, order.id)])]
        valid == {s \in DOMAIN cost : cost[s] < Infinity}
    IN IF valid = {}
       THEN [vehicleId |-> -1, pickupIdx |-> -1, deliveryIdx |-> -1, cost |-> Infinity]
       ELSE LET best == CHOOSE c \in valid : \A d \in valid \ {c} :
                            \/ cost[c] < cost[d]
                            \/ cost[c] = cost[d] /\ slotBefore(c, d)
            IN [vehicleId |-> vehs[best[1] + 1].id, pickupIdx |-> best[2],
                deliveryIdx |-> best[3], cost |-> cost[best]]

\* One iteration of `for (const order of unassignedOrders)`: the new routes.
insertOrder(rts, order, tgt, ords, vehs, D, S) ==
    LET b == bestInsertion(rts, order, tgt, ords, vehs, D, S)
    IN IF b.vehicleId # -1
       THEN LET r == rts[b.vehicleId]
                spliced == splice(splice(r.stops, b.pickupIdx, pickupStop(order.id)),
                                  b.deliveryIdx, deliveryStop(order.id))
                veh == vehs[indexOfVehicle(vehs, b.vehicleId) + 1]
            IN [rts EXCEPT ![b.vehicleId] =
                    updateRouteStats([r EXCEPT !.stops = spliced], veh, ords, vehs, D, S)]
       ELSE rts

\* The routes generateRCRS starts from: an empty route for every vehicle.
\* (`@@ <<>>` leaves the function unchanged and has TLC tabulate it.)
initialRoutes(vehs) ==
    [id \in {vehs[i].id : i \in 1 .. Len(vehs)} |->
        [stops |-> <<>>, totalDistance |-> 0, emptyDistance |-> 0, totalPrice |-> 0]]
    @@ <<>>

RECURSIVE sumOverRoutes(_, _, _)
sumOverRoutes(rts, keys, field) ==
    IF keys = {} THEN 0
    ELSE LET key == CHOOSE x \in keys : TRUE
         IN rts[key][field] + sumOverRoutes(rts, keys \ {key}, field)

calculateFullSolution(rts) ==
    [routes |-> rts,
     totalDistance |-> sumOverRoutes(rts, DOMAIN rts, "totalDistance"),
     emptyDistance |-> sumOverRoutes(rts, DOMAIN rts, "emptyDistance"),
     totalPrice |-> sumOverRoutes(rts, DOMAIN rts, "totalPrice")]

\* The insertion loop of generateRCRS over a shuffled array, from position k on.
RECURSIVE insertAll(_, _, _, _, _, _, _, _)
insertAll(rts, shuffled, k, tgt, ords, vehs, D, S) ==
    IF k > Len(shuffled) THEN rts
    ELSE insertAll(insertOrder(rts, shuffled[k], tgt, ords, vehs, D, S),
                   shuffled, k + 1, tgt, ords, vehs, D, S)

\* generateRCRS: the solutions it can return, one for every outcome of the shuffle.
generateRCRS(ords, vehs, D, S, tgt) ==
    {calculateFullSolution(insertAll(initialRoutes(vehs), shuffled, 1, tgt,
                                     ords, vehs, D, S)) :
        shuffled \in shuffleArray(ords)}

----------------------------------------------------------------------------
(* Parallel simulated annealing, the worker (p-sa.worker.ts).              *)
(* w is the record of the worker's module-level variables; env holds what  *)
(* INIT hands over and never changes afterwards (target, problem and the   *)
(* two matrices).  A function that draws random numbers is the set of the  *)
(* results it can produce.  A temperature is an integer number of units of *)
(* 1/TempScale, rounded down after a cooling step; a weight is in tenths.  *)

TempScale == 1024
ReheatTemp == 50 * TempScale
WorkerEmptyBelow == LoadScale \div 1000
NUMBER_EPSILON == 1

\* The module-level CONFIG before any INIT (minTemp 0.1 is the least number of
\* units that is not below it).
DefaultConfig ==
    [initialTemp |-> 1500 * TempScale,
     coolingRate |-> [num |-> 99, den |-> 100],
     minTemp |-> 103,
     maxIterations |-> 10000,
     batchSize |-> 50,
     syncInterval |-> 200,
     weights |-> [shift |-> 4, swap |-> 3, shuffle |-> 3]]

\* The module-level variables of a worker that has just been loaded.
NewWorker ==
    [CONFIG |-> DefaultConfig,
     currentSolution |-> null, currentEnergy |-> null,
     bestLocalSolution |-> null, bestLocalEnergy |-> null,
     temperature |-> null, iterationCount |-> 0, isRunning |-> FALSE,
     immediates |-> 0]

\* { ...CONFIG, ...config }
mergeConfig(base, config) ==
    [k \in DOMAIN base \cup DOMAIN config |->
        IF k \in DOMAIN config THEN config[k] ELSE base[k]]

\* checkRouteConstraints: `currentLoad > MAX_LOAD`
workerOverloaded(currentLoad) == currentLoad > MAX_LOAD

\* checkRouteConstraints: the loop over the stops from index i on, then the
\* final test.
RECURSIVE checkRouteLoop(_, _, _, _, _)
checkRouteLoop(stops, i, currentLoad, pickedUp, ords) ==
    IF i >= Len(stops) THEN Abs(currentLoad) < NUMBER_EPSILON
    ELSE
      LET stop == stops[i + 1]
          order == OrderById(ords, stop.orderId)
      IN IF stop.type = "pickup"
         THEN IF workerOverloaded(currentLoad + order.load) THEN FALSE
              ELSE checkRouteLoop(stops, i + 1, currentLoad + order.load,
                                  pickedUp \cup {order.id}, ords)
         ELSE IF order.id \notin pickedUp THEN FALSE
              ELSE IF workerOverloaded(currentLoad - order.load) THEN FALSE
              ELSE checkRouteLoop(stops, i + 1, currentLoad - order.load,
                                  pickedUp, ords)

checkRouteConstraints(route, ords) ==
    IF Len(route.stops) = 0 THEN TRUE
    ELSE checkRouteLoop(route.stops, 0, 0, {}, ords)

isValidSolution(solution, env) ==
    \A vKey \in DOMAIN solution.routes :
        (\E i \in 1 .. Len(env.vehs) : env.vehs[i].id = vKey)
            => checkRouteConstraints(solution.routes[vKey], env.ords)

\* getEnergy of the coordinator; the switch of the worker's calculateEnergy.
getEnergy(solution, tgt) ==
    IF tgt = "EMPTY" THEN solution.emptyDistance
    ELSE IF tgt = "DISTANCE" THEN solution.totalDistance
    ELSE solution.totalPrice

calculateEnergy(solution, env) ==
    IF ~isValidSolution(solution, env) THEN Infinity
    ELSE getEnergy(solution, env.tgt)

\* A route that costs its length whatever the vehicle.
routePriceFlat(d, vehicle) == d

\* `route.totalPrice = d * vehicle.priceKm`
routePrice(d, vehicle) == d * vehicle.priceKm

recalculateStats(sol, env) ==
    calculateFullSolution(
        [vKey \in DOMAIN sol.routes |->
            LET vehicle == VehicleById(env.vehs, vKey)
                t == routeDistances(sol.routes[vKey].stops,
                                    indexOfVehicle(env.vehs, vKey),
                                    WorkerEmptyBelow, env.ords, env.D, env.S)
            IN [stops |-> sol.routes[vKey].stops,
                totalDistance |-> t.totalDist,
                emptyDistance |-> t.emptyDist,
                totalPrice |-> routePrice(t.totalDist, vehicle)]]
        @@ <<>>)

\* stops.filter(s => s.orderId !== oId)
withoutOrder(stops, oId) == SelectSeq(stops, LAMBDA s : s.orderId # oId)

nonEmptyIds(rts) == {id \in DOMAIN rts : Len(rts[id].stops) > 0}

\* The order ids a random stop of each route can name: <<vehicle id, order id>>.
stopPicks(rts, ids) ==
    UNION {{<<id, rts[id].stops[k].orderId>> : k \in 1 .. Len(rts[id].stops)} :
                id \in ids}

\* generateNeighbor, branch SHIFT: the routes it can leave.
shiftRoutes(rts) ==
    UNION {UNION {
        LET removed == [rts EXCEPT ![pick[1]].stops = withoutOrder(@, pick[2])]
            len2 == Len(removed[v2].stops)
        IN {[removed EXCEPT ![v2].stops =
                splice(splice(@, pd[1], pickupStop(pick[2])),
                       pd[2], deliveryStop(pick[2]))] :
              pd \in {x \in (0 .. len2) \X (1 .. (len2 + 1)) : x[2] > x[1]}} :
        v2 \in DOMAIN rts} :
      pick \in stopPicks(rts, nonEmptyIds(rts))}

\* A swap that leaves o2 in the route it is taken from.
swapOrdersCopying(rts, v1, o1, v2, o2) ==
    IF o1 = o2 THEN rts
    ELSE
      LET a == [rts EXCEPT ![v1].stops = withoutOrder(@, o1)]
          c == [a EXCEPT ![v1].stops = @ \o <<pickupStop(o2), deliveryStop(o2)>>]
      IN [c EXCEPT ![v2].stops = @ \o <<pickupStop(o1), deliveryStop(o1)>>]

\* generateNeighbor, branch SWAP, once v1, o1, v2 and o2 are drawn.
swapOrders(rts, v1, o1, v2, o2) ==
    IF o1 = o2 THEN rts
    ELSE
      LET a == [rts EXCEPT ![v1].stops = withoutOrder(@, o1)]
          b == [a EXCEPT ![v2].stops = withoutOrder(@, o2)]
          c == [b EXCEPT ![v1].stops = @ \o <<pickupStop(o2), deliveryStop(o2)>>]
      IN [c EXCEPT ![v2].stops = @ \o <<pickupStop(o1), deliveryStop(o1)>>]

\* The five retries can all draw v1 again, so v2 = v1 remains possible.
swapRoutes(rts) ==
    {swapOrders(rts, p1[1], p1[2], p2[1], p2[2]) :
        p1 \in stopPicks(rts, nonEmptyIds(rts)),
        p2 \in stopPicks(rts, nonEmptyIds(rts))}

\* Array.from(new Set(stops.map(s => s.orderId))): first appearances, in order.
RECURSIVE uniqueOrderIds(_, _, _)
uniqueOrderIds(stops, k, acc) ==
    IF k > Len(stops) THEN acc
    ELSE uniqueOrderIds(stops, k + 1,
            IF \E i \in 1 .. Len(acc) : acc[i] = stops[k].orderId THEN acc
            ELSE Append(acc, stops[k].orderId))

RECURSIVE pickupDeliveryPairs(_, _)
pickupDeliveryPairs(ids, k) ==
    IF k > Len(ids) THEN <<>>
    ELSE <<pickupStop(ids[k]), deliveryStop(ids[k])>> \o pickupDeliveryPairs(ids, k + 1)

\* generateNeighbor, branch INTRA-SHUFFLE.
shuffleRoutes(rts) ==
    UNION {IF Len(rts[v].stops) >= 4
           THEN {[rts EXCEPT ![v].stops = pickupDeliveryPairs(perm, 1)] :
                    perm \in shuffleArray(uniqueOrderIds(rts[v].stops, 1, <<>>))}
           ELSE {rts} :
             v \in nonEmptyIds(rts)}

\* generateNeighbor: r < shift takes SHIFT; shift <= r < shift + swap takes SWAP
\* when two routes are non-empty; every other r takes INTRA-SHUFFLE.
generateNeighbor(current, config, env) ==
    LET rts == current.routes
        nonEmpty == nonEmptyIds(rts)
        weights == config.weights
        canShift == weights.shift > 0
        canSwap == weights.swap > 0 /\ Cardinality(nonEmpty) >= 2
        canShuffle == \/ weights.shift + weights.swap < 10
                      \/ weights.swap > 0 /\ Cardinality(nonEmpty) < 2
    IN IF nonEmpty = {} THEN {current}
       ELSE {recalculateStats([current EXCEPT !.routes = r], env) :
                r \in (IF canShift THEN shiftRoutes(rts) ELSE {})
                      \cup (IF canSwap THEN swapRoutes(rts) ELSE {})
                      \cup (IF canShuffle THEN shuffleRoutes(rts) ELSE {})}

initialize(w, data, env) ==
    LET config == IF data.config # null THEN mergeConfig(w.CONFIG, data.config)
                  ELSE w.CONFIG
        energy == calculateEnergy(data.initialSolution, env)
    IN [w EXCEPT !.CONFIG = config,
                 !.currentSolution = data.initialSolution,
                 !.temperature = config.initialTemp,
                 !.currentEnergy = energy,
                 !.bestLocalSolution = data.initialSolution,
                 !.bestLocalEnergy = energy]

\* `if (currentEnergy < bestLocalEnergy)` and its two assignments.
updateBestLocal(w) ==
    IF w.currentEnergy < w.bestLocalEnergy
    THEN [w EXCEPT !.bestLocalSolution = w.currentSolution,
                   !.bestLocalEnergy = w.currentEnergy]
    ELSE w

\* temperature *= CONFIG.coolingRate
coolDown(w) ==
    [w EXCEPT !.temperature =
        (w.temperature * w.CONFIG.coolingRate.num) \div w.CONFIG.coolingRate.den]

\* An acceptance test that leaves every neighbor that is not better to the
\* draw, the infeasible ones included.
acceptanceByDraw(neighborEnergy, currentEnergy) ==
    IF neighborEnergy < currentEnergy THEN {TRUE}
    ELSE IF neighborEnergy = currentEnergy THEN {TRUE}
    ELSE {TRUE, FALSE}

\* `delta < 0 || Math.random() < Math.exp(-delta / temperature)`: the values
\* the test can have. delta < 0 accepts; an infinite neighbor energy makes
\* delta Infinity or NaN and rejects; delta = 0 accepts, exp(0) being 1; a
\* positive finite delta leaves the draw to decide.
acceptance(neighborEnergy, currentEnergy) ==
    IF neighborEnergy < currentEnergy THEN {TRUE}
    ELSE IF neighborEnergy = Infinity THEN {FALSE}
    ELSE IF neighborEnergy = currentEnergy THEN {TRUE}
    ELSE {TRUE, FALSE}

performIteration(w, env) ==
    UNION {
        LET neighborEnergy == calculateEnergy(neighbor, env)
            accepted == updateBestLocal([w EXCEPT !.currentSolution = neighbor,
                                                  !.currentEnergy = neighborEnergy])
        IN {coolDown(IF accept THEN accepted ELSE w) :
                accept \in acceptance(neighborEnergy, w.currentEnergy)} :
        neighbor \in generateNeighbor(w.currentSolution, w.CONFIG, env)}

\* The result of a handler of the worker: its variables and the messages it
\* posted to the coordinator, in order.
Outcome(w, out) == [w |-> w, out |-> out]

doneMessage(w) ==
    [type |-> "DONE", energy |-> w.bestLocalEnergy, solution |-> w.bestLocalSolution]

syncReport(w) ==
    [type |-> "SYNC_REPORT", energy |-> w.bestLocalEnergy,
     solution |-> w.bestLocalSolution]

finishSilently(w) == Outcome([w EXCEPT !.isRunning = FALSE], <<>>)

finish(w) == Outcome([w EXCEPT !.isRunning = FALSE], <<doneMessage(w)>>)

\* runBatch past `if (!isRunning) return`: the loop from i on, then the sync
\* logic and setImmediate(runBatch).
RECURSIVE batchLoop(_, _, _)
batchLoop(w, i, env) ==
    IF i >= w.CONFIG.batchSize
    THEN {Outcome([w EXCEPT !.immediates = @ + 1],
                  IF w.iterationCount % (w.CONFIG.batchSize * w.CONFIG.syncInterval) = 0
                  THEN <<syncReport(w)>> ELSE <<>>)}
    ELSE UNION {
            LET counted == [w1 EXCEPT !.iterationCount = @ + 1]
            IN IF \/ counted.iterationCount >= counted.CONFIG.maxIterations
                  \/ counted.temperature < counted.CONFIG.minTemp
               THEN {finish(counted)}
               ELSE batchLoop(counted, i + 1, env) :
            w1 \in performIteration(w, env)}

runBatch(w, env) ==
    IF ~w.isRunning THEN {Outcome(w, <<>>)}
    ELSE batchLoop(w, 0, env)

startAnnealing(w, env) ==
    IF w.isRunning THEN {Outcome(w, <<>>)}
    ELSE runBatch([w EXCEPT !.isRunning = TRUE], env)

\* A worker that adopts whatever it receives.
adoptsAlways(neighborEnergy, currentEnergy) == TRUE

\* `if (neighborEnergy < currentEnergy)`
adoptsNeighbor(neighborEnergy, currentEnergy) == neighborEnergy < currentEnergy

handleInfluence(w, neighborSolution, neighborEnergy, env) ==
    IF adoptsNeighbor(neighborEnergy, w.currentEnergy)
    THEN {LET adopted == [w EXCEPT !.currentSolution = neighborSolution,
                                   !.currentEnergy = neighborEnergy]
              perturbed == IF isValidSolution(mutated, env)
                           THEN [adopted EXCEPT !.currentSolution = mutated,
                                     !.currentEnergy = calculateEnergy(mutated, env)]
                           ELSE adopted
              kept == updateBestLocal(perturbed)
          IN [kept EXCEPT !.temperature =
                    IF kept.temperature >= ReheatTemp THEN kept.temperature
                    ELSE ReheatTemp] :
            mutated \in generateNeighbor(neighborSolution, w.CONFIG, env)}
    ELSE {w}

\* One `parentPort.on('message', ...)` listener.
messageListener(w, msg, env) ==
    IF msg.type = "INIT"
    THEN startAnnealing(initialize(w, msg.data, env), env)
    ELSE IF msg.type = "INFLUENCE_UPDATE"
    THEN {Outcome(x, <<>>) : x \in handleInfluence(w, msg.solution, msg.energy, env)}
    ELSE {Outcome(w, <<>>)}

\* The module registers the listener twice: a message runs it two times.
onWorkerMessage(w, msg, env) ==
    UNION {{Outcome(second.w, first.out \o second.out) :
                second \in messageListener(first.w, msg, env)} :
            first \in messageListener(w, msg, env)}

----------------------------------------------------------------------------
(* Parallel simulated annealing, the coordinator (p-sa/index.ts).          *)

\* os.cpus().length is at least 1: threadsPerTarget = max(2, totalCpus).
NumThreads == 2

WorkerIds == 0 .. (NumThreads - 1)

replacesGlobalBestAlways(msgEnergy, bestEnergy) == TRUE

promiseAnySettled(res) == res # {}

forwardsEveryMessage(msgType, i) == i < NumThreads - 1

\* `if (msg.type === 'SYNC_REPORT') { if (i < numThreads - 1) {`
forwardsReport(msgType, i) == msgType = "SYNC_REPORT" /\ i < NumThreads - 1

\* A channel that hands over the newest message first.
postMessageFirst(queue, msg) == <<msg>> \o queue

\* nextWorker.postMessage(msg): the message joins the end of the messages the
\* worker has not handled yet.
postMessage(queue, msg) == Append(queue, msg)

\* `await Promise.all(workerPromises)` goes on once every promise is resolved;
\* res is the set of the workers whose promise is resolved.
promiseAll(res) == res = WorkerIds

\* `msg.energy < globalBestEnergy`
replacesGlobalBest(msgEnergy, bestEnergy) == msgEnergy < bestEnergy

solutionMetrics(solution) ==
    [totalDistance |-> solution.totalDistance, totalPrice |-> solution.totalPrice,
     emptyDistance |-> solution.emptyDistance]

\* (saConfig?.initialTemp || 1000) * (0.9 + Math.random() * 0.2), the factor in
\* thousandths.
jitteredTemp(config, permille) ==
    LET base == IF config # null /\ "initialTemp" \in DOMAIN config
                   /\ config.initialTemp # 0
                THEN config.initialTemp ELSE 1000 * TempScale
    IN (base * permille) \div 1000

initMessage(config, solution, permille) ==
    [type |-> "INIT",
     data |-> [config |-> config, initialSolution |-> solution,
               initialTemp |-> jitteredTemp(config, permille)]]

----------------------------------------------------------------------------
(* The comparison of the two exact solvers (runComparison): the caller     *)
(* builds a problem, runs the optimized solver, then the unoptimized one.  *)

VehicleSeqs(n) ==
    {[i \in 1 .. n |-> [id |-> VehicleIdOf(i - 1), startLocation |-> f[i][1],
                        priceKm |-> f[i][2]]] :
        f \in [1 .. n -> StartCoords \X PriceKms]}

OrderSeqs(n, loads) ==
    {[i \in 1 .. n |-> [id |-> OrderIdOf(i - 1), pickupLocation |-> f[i][1],
                        deliveryLocation |-> f[i][2], load |-> f[i][3]]] :
        f \in [1 .. n -> PickupCoords \X DeliveryCoords \X loads]}

\* The variables of a component that a specification does not run.
RcrsUnused ==
    /\ rcrsRoutes = null
    /\ unassignedOrders = null
    /\ orderPos = null
    /\ rcrsSolution = null

PsaUnused ==
    /\ saConfig = null
    /\ initialSolution = null
    /\ globalBest = null
    /\ globalBestEnergy = null
    /\ totalIterations = null
    /\ history = null
    /\ workers = null
    /\ toWorker = null
    /\ toCoord = null
    /\ resolved = null
    /\ terminated = null
    /\ psaResult = null
    /\ receivedEnergies = null
    /\ workerError = null
    /\ posted = null
    /\ influenced = null
    /\ turns = null

PureUnused ==
    /\ call = null
    /\ returned = null

InitExact ==
    /\ \E n \in 1 .. MaxVehicles : vehicles \in VehicleSeqs(n)
    /\ \E n \in 0 .. MaxOrders : orders \in OrderSeqs(n, ExactLoads)
    /\ maxTotalDistance \in DistanceLimits
    /\ pc = "idle"
    /\ solver = NewSolver
    /\ solveResult = null
    /\ unoptResult = null
    /\ target = null
    /\ RcrsUnused
    /\ PsaUnused
    /\ PureUnused

\* BruteForceAlgorithmJS.solveSync(problem, config).
SolveSync ==
    /\ pc = "idle"
    /\ IF ProblemTooLarge(orders, vehicles)
       THEN /\ pc' = "thrown"
            /\ solveResult' = [error |-> "Problem too large"]
            /\ UNCHANGED solver
       ELSE \E got \in {solveSyncSearch(solver, orders, vehicles)} :
               /\ pc' = "solved"
               /\ solver' = got[1]
               /\ solveResult' = got[2]
    /\ UNCHANGED <<vehicles, orders, maxTotalDistance, unoptResult, target, rcrsVars,
                   psaVars, pureVars>>

\* BruteForceAlgorithm.solve(problem, config) of the unoptimized solver.
UnoptimizedSolve ==
    /\ pc = "solved"
    /\ pc' = "compared"
    /\ unoptResult' = unoptimizedSolve(orders, vehicles, maxTotalDistance)
    /\ UNCHANGED <<vehicles, orders, maxTotalDistance, solver, solveResult, target,
                   rcrsVars, psaVars, pureVars>>

NextExact == SolveSync \/ UnoptimizedSolve

SpecExact == InitExact /\ [][NextExact]_vars

\* The size guard is exercised on problems of up to GuardMaxSize vehicles and
\* orders. Every order has loadFactor 0.5 (load 2.0), so that no vehicle can
\* carry it and the search of an accepted 7 x 7 problem ends after one
\* solveTSP call per vehicle and subset.
GuardVehicles(n) ==
    [i \in 1 .. n |-> [id |-> VehicleIdOf(i - 1), startLocation |-> 1, priceKm |-> 1]]

GuardOrders(n) ==
    [i \in 1 .. n |-> [id |-> OrderIdOf(i - 1), pickupLocation |-> 0,
                       deliveryLocation |-> 3, load |-> 2 * LoadScale]]

InitGuard ==
    /\ \E n \in 0 .. GuardMaxSize : vehicles = GuardVehicles(n)
    /\ \E n \in 0 .. GuardMaxSize : orders = GuardOrders(n)
    /\ maxTotalDistance \in DistanceLimits
    /\ pc = "idle"
    /\ solver = NewSolver
    /\ solveResult = null
    /\ unoptResult = null
    /\ target = null
    /\ RcrsUnused
    /\ PsaUnused
    /\ PureUnused

NextGuard == SolveSync

SpecGuard == InitGuard /\ [][NextGuard]_vars

\* generateRCRS, run one order at a time.
RcrsMaxOrders == 3
RcrsDeliveryCoords == {3}
RcrsLoads == {LoadScale \div 2, LoadScale + 2, 2 * LoadScale}

RcrsOrderSeqs(n) ==
    {[i \in 1 .. n |-> [id |-> OrderIdOf(i - 1), pickupLocation |-> f[i][1],
                        deliveryLocation |-> f[i][2], load |-> f[i][3]]] :
        f \in [1 .. n -> PickupCoords \X RcrsDeliveryCoords \X RcrsLoads]}

\* The heuristics' vehicles: any start, the price per km set by the position
\* (3 for the first vehicle, 1 for the second, ...).
HeuristicVehicleSeqs(n) ==
    {[i \in 1 .. n |-> [id |-> VehicleIdOf(i - 1), startLocation |-> f[i],
                        priceKm |-> IF i % 2 = 1 THEN 3 ELSE 1]] :
        f \in [1 .. n -> StartCoords]}

ExactUnused ==
    /\ maxTotalDistance = null
    /\ solver = null
    /\ solveResult = null
    /\ unoptResult = null

InitRCRS ==
    /\ \E n \in 0 .. MaxVehicles : vehicles \in HeuristicVehicleSeqs(n)
    /\ \E n \in 0 .. RcrsMaxOrders : orders \in RcrsOrderSeqs(n)
    /\ target \in Targets
    /\ pc = "idle"
    /\ rcrsRoutes = null
    /\ unassignedOrders = null
    /\ orderPos = null
    /\ rcrsSolution = null
    /\ ExactUnused
    /\ PsaUnused
    /\ PureUnused

\* generateRCRS up to its insertion loop: the empty routes and the shuffle.
GenerateRCRS ==
    /\ pc = "idle"
    /\ pc' = "inserting"
    /\ rcrsRoutes' = initialRoutes(vehicles)
    /\ unassignedOrders' \in shuffleArray(orders)
    /\ orderPos' = 1
    /\ UNCHANGED <<vehicles, orders, target, rcrsSolution, exactVars, psaVars,
                   pureVars>>

\* One iteration of the insertion loop, updateRouteStats included.
InsertOrder ==
    /\ pc = "inserting"
    /\ orderPos <= Len(unassignedOrders)
    /\ rcrsRoutes' = insertOrder(rcrsRoutes, unassignedOrders[orderPos], target,
                                 orders, vehicles, buildDistanceMatrix(orders),
                                 buildVehicleDistances(vehicles, orders))
    /\ orderPos' = orderPos + 1
    /\ UNCHANGED <<vehicles, orders, pc, target, unassignedOrders, rcrsSolution,
                   exactVars, psaVars, pureVars>>

\* The loop is over: `return calculateFullSolution(routes)`.
ReturnRCRS ==
    /\ pc = "inserting"
    /\ orderPos > Len(unassignedOrders)
    /\ pc' = "returned"
    /\ rcrsSolution' = calculateFullSolution(rcrsRoutes)
    /\ UNCHANGED <<vehicles, orders, target, rcrsRoutes, unassignedOrders, orderPos,
                   exactVars, psaVars, pureVars>>

NextRCRS == GenerateRCRS \/ InsertOrder \/ ReturnRCRS

SpecRCRS == InitRCRS /\ [][NextRCRS]_vars

\* ParallelSimulatedAnnealing.solve with NumThreads workers.
JitterPermille == {900, 1099}

\* The saConfig objects a caller passes: one iteration in all; two batches of
\* one iteration with a report after each batch; batches of two iterations at
\* a temperature that falls below minTemp at the second iteration.
OneIteration == [maxIterations |-> 1, batchSize |-> 1, syncInterval |-> 1]

TwoBatches == [maxIterations |-> 2, batchSize |-> 1, syncInterval |-> 1]

CoolsDown ==
    [maxIterations |-> 3, batchSize |-> 2, syncInterval |-> 1,
     initialTemp |-> TempScale \div 4, coolingRate |-> [num |-> 1, den |-> 2]]

SaConfigs == {OneIteration, TwoBatches, CoolsDown}

\* Batches of one iteration with a report after every batch, at a temperature
\* that falls below minTemp at the second iteration after an `initialize`.
SlowCooling ==
    [maxIterations |-> 4, batchSize |-> 1, syncInterval |-> 1,
     initialTemp |-> TempScale \div 4, coolingRate |-> [num |-> 1, den |-> 2]]

\* The first vehicle starts at 1 and costs 3 per km, the second at 3 and 1.
PsaVehicles(n) ==
    [i \in 1 .. n |-> [id |-> VehicleIdOf(i - 1),
                       startLocation |-> IF i % 2 = 1 THEN 1 ELSE 3,
                       priceKm |-> IF i % 2 = 1 THEN 3 ELSE 1]]

\* The orders of a problem are of these kinds: a half load that the tolerance
\* of isValidRoute lets travel with another one, a return trip, a short trip,
\* and a load no vehicle can carry.
PsaOrderKinds ==
    {[pickupLocation |-> 0, deliveryLocation |-> 3, load |-> LoadScale \div 2 + 1],
     [pickupLocation |-> 3, deliveryLocation |-> 0, load |-> LoadScale \div 2],
     [pickupLocation |-> 0, deliveryLocation |-> 1, load |-> LoadScale \div 2],
     [pickupLocation |-> 0, deliveryLocation |-> 3, load |-> 2 * LoadScale]}

PsaOrderSeqs(n) ==
    {[i \in 1 .. n |-> [id |-> OrderIdOf(i - 1),
                        pickupLocation |-> f[i].pickupLocation,
                        deliveryLocation |-> f[i].deliveryLocation,
                        load |-> f[i].load]] :
        f \in [1 .. n -> PsaOrderKinds]}

\* Two orders of 0.50000025 each: together above 1 and within 1 + 1e-6.
CoLoadOrders ==
    <<[id |-> OrderIdOf(0), pickupLocation |-> 0, deliveryLocation |-> 3,
       load |-> LoadScale \div 2 + 1],
      [id |-> OrderIdOf(1), pickupLocation |-> 0, deliveryLocation |-> 3,
       load |-> LoadScale \div 2 + 1]>>

\* Two orders the insertion heuristic can split over two vehicles although one
\* vehicle serves both on a shorter way.
DetourOrders ==
    <<[id |-> OrderIdOf(0), pickupLocation |-> 3, deliveryLocation |-> 0,
       load |-> LoadScale \div 2],
      [id |-> OrderIdOf(1), pickupLocation |-> 0, deliveryLocation |-> 1,
       load |-> LoadScale \div 2]>>

\* The calls of solve that are explored: every problem of at most one order
\* with every target and configuration, the co-loaded pair on one vehicle
\* likewise, and the detour on two vehicles for DISTANCE and one iteration.
PsaScenarios ==
    {[vehicles |-> PsaVehicles(nv), orders |-> os, target |-> t, saConfig |-> c] :
        nv \in 1 .. MaxVehicles, os \in PsaOrderSeqs(0) \cup PsaOrderSeqs(1),
        t \in Targets, c \in SaConfigs}
    \cup {[vehicles |-> PsaVehicles(1), orders |-> CoLoadOrders, target |-> t,
           saConfig |-> c] : t \in Targets, c \in SaConfigs}
    \cup {[vehicles |-> PsaVehicles(2), orders |-> DetourOrders,
           target |-> "DISTANCE", saConfig |-> OneIteration]}

\* What INIT hands to a worker besides the configuration and the solution.
PsaEnv ==
    [tgt |-> target, ords |-> orders, vehs |-> vehicles,
     D |-> buildDistanceMatrix(orders),
     S |-> buildVehicleDistances(vehicles, orders)]

\* The state before solve is called with one of the given scenarios.
PsaStart(scenarios) ==
    /\ \E sc \in scenarios :
            /\ vehicles = sc.vehicles
            /\ orders = sc.orders
            /\ target = sc.target
            /\ saConfig = sc.saConfig
    /\ pc = "idle"
    /\ initialSolution = null
    /\ globalBest = null
    /\ globalBestEnergy = null
    /\ totalIterations = null
    /\ history = null
    /\ workers = null
    /\ toWorker = null
    /\ toCoord = null
    /\ resolved = null
    /\ terminated = null
    /\ psaResult = null
    /\ receivedEnergies = null
    /\ workerError = null
    /\ posted = null
    /\ influenced = null
    /\ turns = null
    /\ ExactUnused
    /\ RcrsUnused
    /\ PureUnused

InitPSA == PsaStart(PsaScenarios)

\* solve and solveTarget up to `await Promise.all(workerPromises)`.
Solve ==
    /\ pc = "idle"
    /\ \E sol \in generateRCRS(orders, vehicles, PsaEnv.D, PsaEnv.S, target),
          jitter \in [WorkerIds -> JitterPermille] :
            /\ initialSolution' = sol
            /\ globalBest' = sol
            /\ globalBestEnergy' = getEnergy(sol, target)
            /\ history' = <<[iteration |-> 0, metrics |-> solutionMetrics(sol)]>>
            /\ toWorker' = [i \in WorkerIds |->
                                <<initMessage(saConfig, sol, jitter[i])>>]
    /\ totalIterations' = 0
    /\ workers' = [i \in WorkerIds |-> NewWorker]
    /\ toCoord' = [i \in WorkerIds |-> <<>>]
    /\ resolved' = {}
    /\ terminated' = {}
    /\ receivedEnergies' = {}
    /\ workerError' = [i \in WorkerIds |-> "none"]
    /\ posted' = [i \in WorkerIds |-> <<>>]
    /\ influenced' = [i \in WorkerIds |-> null]
    /\ turns' = [i \in WorkerIds |-> 0]
    /\ pc' = "awaiting"
    /\ UNCHANGED <<vehicles, orders, target, saConfig, psaResult, exactVars, rcrsVars,
                   pureVars>>

\* The types of the messages of a sequence, in order.
typesOf(msgs) == [k \in 1 .. Len(msgs) |-> msgs[k].type]

\* Worker i handles the next message posted to it (both listeners run).
WorkerReceive(i) ==
    /\ pc = "awaiting"
    /\ i \notin terminated
    /\ workerError[i] = "none"
    /\ toWorker[i] # <<>>
    /\ \E o \in onWorkerMessage(workers[i], Head(toWorker[i]), PsaEnv) :
            /\ workers' = [workers EXCEPT ![i] = o.w]
            /\ toCoord' = [toCoord EXCEPT ![i] = @ \o o.out]
            /\ posted' = [posted EXCEPT ![i] = @ \o typesOf(o.out)]
            /\ influenced' =
                    IF Head(toWorker[i]).type = "INFLUENCE_UPDATE"
                    THEN [influenced EXCEPT ![i] =
                            [msg |-> Head(toWorker[i]), before |-> workers[i],
                             after |-> o.w]]
                    ELSE influenced
    /\ toWorker' = [toWorker EXCEPT ![i] = Tail(@)]
    /\ turns' = [turns EXCEPT ![i] = @ + 1]
    /\ UNCHANGED <<vehicles, orders, pc, target, saConfig, initialSolution, globalBest,
                   globalBestEnergy, totalIterations, history, resolved, terminated,
                   psaResult, receivedEnergies, workerError, exactVars, rcrsVars,
                   pureVars>>

\* Worker i runs the runBatch it scheduled with setImmediate.
WorkerRunBatch(i) ==
    /\ pc = "awaiting"
    /\ i \notin terminated
    /\ workerError[i] = "none"
    /\ workers[i].immediates > 0
    /\ \E o \in runBatch([workers[i] EXCEPT !.immediates = @ - 1], PsaEnv) :
            /\ workers' = [workers EXCEPT ![i] = o.w]
            /\ toCoord' = [toCoord EXCEPT ![i] = @ \o o.out]
            /\ posted' = [posted EXCEPT ![i] = @ \o typesOf(o.out)]
    /\ turns' = [turns EXCEPT ![i] = @ + 1]
    /\ UNCHANGED <<vehicles, orders, pc, target, saConfig, initialSolution, globalBest,
                   globalBestEnergy, totalIterations, history, toWorker, resolved,
                   terminated, psaResult, receivedEnergies, workerError, influenced,
                   exactVars, rcrsVars, pureVars>>

\* The coordinator's `worker.on('message', ...)` handler of worker i.
CoordReceive(i) ==
    /\ pc = "awaiting"
    /\ ~promiseAll(resolved)
    /\ toCoord[i] # <<>>
    /\ LET msg == Head(toCoord[i])
           report == msg.type \in {"SYNC_REPORT", "DONE"}
           better == report /\ replacesGlobalBest(msg.energy, globalBestEnergy)
       IN /\ globalBestEnergy' = IF better THEN msg.energy ELSE globalBestEnergy
          /\ globalBest' = IF better THEN msg.solution ELSE globalBest
          /\ history' = IF better
                        THEN Append(history, [iteration |-> totalIterations,
                                              metrics |-> solutionMetrics(msg.solution)])
                        ELSE history
          /\ toWorker' = IF forwardsReport(msg.type, i)
                         THEN [toWorker EXCEPT ![i + 1] =
                                  postMessage(@, [type |-> "INFLUENCE_UPDATE",
                                                  solution |-> msg.solution,
                                                  energy |-> msg.energy])]
                         ELSE toWorker
          /\ terminated' = IF msg.type = "DONE" THEN terminated \cup {i} ELSE terminated
          /\ resolved' = IF msg.type = "DONE" THEN resolved \cup {i} ELSE resolved
          /\ receivedEnergies' = IF report THEN receivedEnergies \cup {msg.energy}
                                 ELSE receivedEnergies
    /\ totalIterations' = totalIterations + 1
    /\ toCoord' = [toCoord EXCEPT ![i] = Tail(@)]
    /\ UNCHANGED <<vehicles, orders, pc, target, saConfig, initialSolution, workers,
                   psaResult, workerError, posted, influenced, turns, exactVars,
                   rcrsVars, pureVars>>

\* A message of a worker that was terminated before the message was handled
\* is lost with the worker's port.
CoordDiscard(i) ==
    /\ pc = "awaiting"
    /\ i \in terminated
    /\ toCoord[i] # <<>>
    /\ toCoord' = [toCoord EXCEPT ![i] = Tail(@)]
    /\ UNCHANGED <<vehicles, orders, pc, target, saConfig, initialSolution, globalBest,
                   globalBestEnergy, totalIterations, history, workers, toWorker,
                   resolved, terminated, psaResult, receivedEnergies, workerError,
                   posted, influenced, turns, exactVars, rcrsVars, pureVars>>

\* Promise.all has resolved: `return { solution: globalBest, history }`.
ReturnSolve ==
    /\ pc = "awaiting"
    /\ promiseAll(resolved)
    /\ pc' = "psaReturned"
    /\ psaResult' = [solution |-> globalBest, history |-> history]
    /\ UNCHANGED <<vehicles, orders, target, saConfig, initialSolution, globalBest,
                   globalBestEnergy, totalIterations, history, workers, toWorker,
                   toCoord, resolved, terminated, receivedEnergies, workerError,
                   posted, influenced, turns, exactVars, rcrsVars, pureVars>>

NextPSA ==
    \/ Solve
    \/ \E i \in WorkerIds : WorkerReceive(i)
    \/ \E i \in WorkerIds : WorkerRunBatch(i)
    \/ \E i \in WorkerIds : CoordReceive(i)
    \/ \E i \in WorkerIds : CoordDiscard(i)
    \/ ReturnSolve

SpecPSA == InitPSA /\ [][NextPSA]_vars

\* Two orders of half a load: one picked up and delivered at the same place,
\* one carried from 3 to 1. The insertion heuristic can leave them on two
\* vehicles at a price of 5 where the cheaper vehicle serves both for 3.
HalfLoadPair ==
    <<[id |-> OrderIdOf(0), pickupLocation |-> 0, deliveryLocation |-> 0,
       load |-> LoadScale \div 2],
      [id |-> OrderIdOf(1), pickupLocation |-> 3, deliveryLocation |-> 1,
       load |-> LoadScale \div 2]>>

\* Two orders of three fifths of a load each, which no vehicle can carry
\* together: one carried from 0 to 3, one from 2 to 0.
HeavyPair ==
    <<[id |-> OrderIdOf(0), pickupLocation |-> 0, deliveryLocation |-> 3,
       load |-> (3 * LoadScale) \div 5],
      [id |-> OrderIdOf(1), pickupLocation |-> 2, deliveryLocation |-> 0,
       load |-> (3 * LoadScale) \div 5]>>

\* solve for PRICE on the pair with two vehicles and two batches, so that the
\* first worker reports once and the second one receives its report; solve
\* for DISTANCE on the heavy pair with one vehicle; and solve without orders
\* and with a single iteration.
PairScenarios ==
    {[vehicles |-> PsaVehicles(2), orders |-> HalfLoadPair, target |-> "PRICE",
      saConfig |-> TwoBatches],
     [vehicles |-> PsaVehicles(1), orders |-> HeavyPair, target |-> "DISTANCE",
      saConfig |-> TwoBatches],
     [vehicles |-> PsaVehicles(1), orders |-> <<>>, target |-> "PRICE",
      saConfig |-> OneIteration]}

InitPSAPair == PsaStart(PairScenarios)

SpecPSAPair == InitPSAPair /\ [][NextPSA]_vars

\* solve called without saConfig, so that every worker keeps the CONFIG it
\* was loaded with, on problems without orders (every neighbor is the
\* solution itself); and solve with a single iteration.
DefaultScenarios ==
    {[vehicles |-> PsaVehicles(nv), orders |-> <<>>, target |-> t, saConfig |-> null] :
        nv \in 1 .. MaxVehicles, t \in Targets}
    \cup {[vehicles |-> PsaVehicles(1), orders |-> <<>>, target |-> "PRICE",
           saConfig |-> OneIteration]}

InitPSADefault == PsaStart(DefaultScenarios)

SpecPSADefault == InitPSADefault /\ [][NextPSA]_vars

\* One order that the first vehicle serves on a shorter way than the second.
NearOrder ==
    <<[id |-> OrderIdOf(0), pickupLocation |-> 0, deliveryLocation |-> 1,
       load |-> LoadScale \div 2]>>

\* The calls of solve whose progress is followed to the end: two vehicles, no
\* order or one, and the configurations of which one ends a worker in its
\* first batch, one after a second batch, and one (SlowCooling) by temperature
\* after three batches unless an INFLUENCE_UPDATE reheats the worker.
LiveScenarios ==
    {[vehicles |-> PsaVehicles(2), orders |-> os, target |-> "DISTANCE",
      saConfig |-> c] :
        os \in {<<>>, NearOrder}, c \in {OneIteration, TwoBatches, SlowCooling}}

\* The state in which solveTarget reaches `await Promise.all(workerPromises)`:
\* what Solve leaves, taken as the start.
InitPSALive ==
    /\ \E sc \in LiveScenarios :
            /\ vehicles = sc.vehicles
            /\ orders = sc.orders
            /\ target = sc.target
            /\ saConfig = sc.saConfig
    /\ \E sol \in generateRCRS(orders, vehicles, PsaEnv.D, PsaEnv.S, target),
          jitter \in [WorkerIds -> JitterPermille] :
            /\ initialSolution = sol
            /\ globalBest = sol
            /\ globalBestEnergy = getEnergy(sol, target)
            /\ history = <<[iteration |-> 0, metrics |-> solutionMetrics(sol)]>>
            /\ toWorker = [i \in WorkerIds |->
                                <<initMessage(saConfig, sol, jitter[i])>>]
    /\ totalIterations = 0
    /\ workers = [i \in WorkerIds |-> NewWorker]
    /\ toCoord = [i \in WorkerIds |-> <<>>]
    /\ resolved = {}
    /\ terminated = {}
    /\ receivedEnergies = {}
    /\ workerError = [i \in WorkerIds |-> "none"]
    /\ posted = [i \in WorkerIds |-> <<>>]
    /\ influenced = [i \in WorkerIds |-> null]
    /\ turns = [i \in WorkerIds |-> 0]
    /\ pc = "awaiting"
    /\ psaResult = null
    /\ ExactUnused
    /\ RcrsUnused
    /\ PureUnused

NextPSALive ==
    \/ \E i \in WorkerIds : WorkerReceive(i)
    \/ \E i \in WorkerIds : WorkerRunBatch(i)
    \/ \E i \in WorkerIds : CoordReceive(i)
    \/ \E i \in WorkerIds : CoordDiscard(i)
    \/ ReturnSolve

\* The thread of worker i raises an error nothing catches: the thread ends
\* and an 'error' event is on its way to the coordinator.
WorkerError(i) ==
    /\ pc = "awaiting"
    /\ i \notin terminated
    /\ workerError[i] = "none"
    /\ toWorker[i] # <<>> \/ workers[i].isRunning
    /\ workerError' = [workerError EXCEPT ![i] = "raised"]
    /\ UNCHANGED <<vehicles, orders, pc, target, saConfig, initialSolution, globalBest,
                   globalBestEnergy, totalIterations, history, workers, toWorker,
                   toCoord, resolved, terminated, psaResult, receivedEnergies, posted,
                   influenced, turns, exactVars, rcrsVars, pureVars>>

\* The coordinator's `worker.on('error', ...)` handler of worker i: reject(err).
\* A promise that is resolved already stays resolved; otherwise Promise.all
\* rejects and solve throws the error of worker i.
CoordError(i) ==
    /\ pc = "awaiting"
    /\ workerError[i] = "raised"
    /\ workerError' = [workerError EXCEPT ![i] = "handled"]
    /\ IF i \in resolved
       THEN UNCHANGED <<pc, psaResult>>
       ELSE /\ pc' = "psaFailed"
            /\ psaResult' = [error |-> i]
    /\ UNCHANGED <<vehicles, orders, target, saConfig, initialSolution, globalBest,
                   globalBestEnergy, totalIterations, history, workers, toWorker,
                   toCoord, resolved, terminated, receivedEnergies, posted,
                   influenced, turns, exactVars, rcrsVars, pureVars>>

InitPSAError == PsaStart(LiveScenarios)

NextPSAError ==
    \/ NextPSA
    \/ \E i \in WorkerIds : WorkerError(i)
    \/ \E i \in WorkerIds : CoordError(i)

\* solve with workers that can raise an unexpected error at any moment.
SpecPSAError == InitPSAError /\ [][NextPSAError]_vars

\* A turn of the event loop of worker i: the steps WorkerReceive(i) and
\* WorkerRunBatch(i), told by the count of the turns.
WorkerTurn(i) ==
    /\ pc = "awaiting"
    /\ i \notin terminated
    /\ workerError[i] = "none"
    /\ toWorker[i] # <<>> \/ workers[i].immediates > 0
    /\ turns' = [turns EXCEPT ![i] = @ + 1]

\* Every thread runs an event loop of its own: a worker with a posted message
\* or a callback scheduled with setImmediate runs a turn, the coordinator
\* handles a message posted to it and runs the continuation of a resolved
\* await.
FairPSA ==
    /\ WF_vars(ReturnSolve)
    /\ \A i \in WorkerIds :
            /\ WF_turns(WorkerTurn(i))
            /\ WF_vars(CoordReceive(i))

SpecPSALive == InitPSALive /\ [][NextPSALive]_vars /\ FairPSA

----------------------------------------------------------------------------
(* Calls of the helper functions of the unoptimized solver.                *)

\* iterateAllSubsets is called with a fullMask of at most MaskBits bits and
\* an assignmentMask within it.
SubsetCalls ==
    (UNION {{[fn |-> "iterateAllSubsets", assignmentMask |-> a, fullMask |-> f] :
                a \in {x \in 0 .. f : BitAnd(x, f) = x}} :
            f \in 0 .. (ShiftLeft(1, MaskBits) - 1)}) \X {<<>>}

\* The orders of a call of generateAllVehicleRoutes: all at one place, as in
\* the test of the function, or each at places of its own.
RouteOrders ==
    {[i \in 1 .. MaxRouteOrders |->
        [id |-> OrderIdOf(i - 1), pickupLocation |-> 0, deliveryLocation |-> 0,
         load |-> 0]],
     [i \in 1 .. MaxRouteOrders |->
        [id |-> OrderIdOf(i - 1), pickupLocation |-> i - 1, deliveryLocation |-> i,
         load |-> LoadScale \div 2]]}

\* The values of a Set of order ids in insertion order.
OrderIdSeqs ==
    UNION {{q \in [1 .. n -> {OrderIdOf(i) : i \in 0 .. (MaxRouteOrders - 1)}] :
                \A i, j \in 1 .. n : i # j => q[i] # q[j]} :
            n \in 0 .. MaxRouteOrders}

RouteCalls ==
    {[fn |-> "generateAllVehicleRoutes", orderIds |-> q] : q \in OrderIdSeqs}
        \X RouteOrders

InitPure ==
    /\ \E c \in SubsetCalls \cup RouteCalls :
            /\ call = c[1]
            /\ orders = c[2]
    /\ returned = null
    /\ vehicles = <<>>
    /\ pc = "called"
    /\ target = null
    /\ ExactUnused
    /\ RcrsUnused
    /\ PsaUnused

\* iterateAllSubsets(assignmentMask, fullMask, cb): the values cb is given.
CallIterateAllSubsets ==
    /\ pc = "called"
    /\ call.fn = "iterateAllSubsets"
    /\ returned' = iterateAllSubsets(call.assignmentMask, call.fullMask)
    /\ pc' = "applied"
    /\ UNCHANGED <<vehicles, orders, target, call, exactVars, rcrsVars, psaVars>>

\* generateAllVehicleRoutes(orders, orderIds).
CallGenerateAllVehicleRoutes ==
    /\ pc = "called"
    /\ call.fn = "generateAllVehicleRoutes"
    /\ returned' = generateAllVehicleRoutes(orders, call.orderIds)
    /\ pc' = "applied"
    /\ UNCHANGED <<vehicles, orders, target, call, exactVars, rcrsVars, psaVars>>

NextPure == CallIterateAllSubsets \/ CallGenerateAllVehicleRoutes

SpecPure == InitPure /\ [][NextPure]_vars

\* The stop sequences in which every order of ids has one pickup and, later,
\* one delivery.
RECURSIVE StopSeqsOf(_)
StopSeqsOf(ids) ==
    IF ids = {} THEN {<<>>}
    ELSE LET o == CHOOSE x \in ids : TRUE
         IN UNION {{splice(splice(q, pd[1], pickupStop(o)), pd[2], deliveryStop(o)) :
                        pd \in {x \in (0 .. Len(q)) \X (1 .. (Len(q) + 1)) : x[2] > x[1]}} :
                    q \in StopSeqsOf(ids \ {o})}

\* The orders and the two vehicles of a call of generateNeighbor.
NeighborOrders ==
    [i \in 1 .. MaxRouteOrders |->
        [id |-> OrderIdOf(i - 1), pickupLocation |-> i - 1, deliveryLocation |-> i,
         load |-> LoadScale \div 2]]

NeighborEnv ==
    [tgt |-> "DISTANCE", ords |-> NeighborOrders, vehs |-> PsaVehicles(2),
     D |-> buildDistanceMatrix(NeighborOrders),
     S |-> buildVehicleDistances(PsaVehicles(2), NeighborOrders)]

\* The solutions that serve some of the orders, each order on one of the two
\* vehicles, with the statistics the worker computes for them.
NeighborSolutions ==
    UNION {UNION {
        {recalculateStats(
            [routes |-> (VehicleIdOf(0) :> [stops |-> q1]
                         @@ VehicleIdOf(1) :> [stops |-> q2])], NeighborEnv) :
            q1 \in StopSeqsOf(first), q2 \in StopSeqsOf(served \ first)} :
        first \in SUBSET served} :
      served \in SUBSET {OrderIdOf(i) : i \in 0 .. (MaxRouteOrders - 1)}}

\* CONFIG.weights in tenths: the defaults, and the weights that leave one
\* operator only.
NeighborWeights ==
    {[shift |-> 4, swap |-> 3, shuffle |-> 3], [shift |-> 10, swap |-> 0, shuffle |-> 0],
     [shift |-> 0, swap |-> 10, shuffle |-> 0], [shift |-> 0, swap |-> 0, shuffle |-> 10]}

InitNeighbor ==
    /\ \E c \in NeighborSolutions, w \in NeighborWeights :
            call = [fn |-> "generateNeighbor", current |-> c,
                    CONFIG |-> [DefaultConfig EXCEPT !.weights = w]]
    /\ orders = NeighborOrders
    /\ vehicles = PsaVehicles(2)
    /\ returned = null
    /\ pc = "called"
    /\ target = "DISTANCE"
    /\ ExactUnused
    /\ RcrsUnused
    /\ PsaUnused

\* generateNeighbor(current): every solution the draws can make it return.
CallGenerateNeighbor ==
    /\ pc = "called"
    /\ call.fn = "generateNeighbor"
    /\ returned' = generateNeighbor(call.current, call.CONFIG, PsaEnv)
    /\ pc' = "applied"
    /\ UNCHANGED <<vehicles, orders, target, call, exactVars, rcrsVars, psaVars>>

NextNeighbor == CallGenerateNeighbor

SpecNeighbor == InitNeighbor /\ [][NextNeighbor]_vars

\* The loads 1 / loadFactor of the orders of a route whose empty distance is
\* computed four times: below the 1e-6 of updateRouteStats, below the 0.001
\* of recalculateStats only, and half a vehicle.
EmptyLoads == {1, LoadScale \div 2000, LoadScale \div 2}

EmptyOrderSeqs(n) ==
    {q \in [1 .. n -> [id : {0}, pickupLocation : {0, 2}, deliveryLocation : {1, 3},
                       load : EmptyLoads]] : TRUE}

\* One vehicle and one or two orders; the ids are those of the positions.
InitEmpty ==
    /\ \E n \in 1 .. 2 : \E q \in EmptyOrderSeqs(n) :
            orders = [i \in 1 .. n |-> [q[i] EXCEPT !.id = OrderIdOf(i - 1)]]
    /\ \E x \in {0, 1} :
            vehicles = <<[id |-> VehicleIdOf(0), startLocation |-> x, priceKm |-> 1]>>
    /\ call = [fn |-> "solveTSP"]
    /\ returned = null
    /\ pc = "called"
    /\ target = "EMPTY"
    /\ ExactUnused
    /\ RcrsUnused
    /\ PsaUnused

\* The three routes solveTSP returned, and the names they have in its result.
TspRouteNames == {"minDistanceRoute", "minEmptyRoute", "minPriceRoute"}

\* The locations generateAllVehicleRoutes makes of the stops of a route.
LocationsOf(stops, ords) ==
    [k \in 1 .. Len(stops) |->
        LET order == OrderById(ords, stops[k].orderId)
        IN [type |-> stops[k].type, orderId |-> stops[k].orderId,
            location |-> IF stops[k].type = "pickup" THEN order.pickupLocation
                         ELSE order.deliveryLocation,
            load |-> order.load]]

\* solveTSP(vehicleIndex, orderIndices) for the vehicle and all the orders.
CallSolveTSP ==
    /\ pc = "called"
    /\ call.fn = "solveTSP"
    /\ returned' = [exact |-> solveTSP(0, [k \in 1 .. Len(orders) |-> k - 1],
                                       vehicles[1], orders, PsaEnv.D, PsaEnv.S),
                    follow |-> null, rcrs |-> null, worker |-> null]
    /\ pc' = "routed"
    /\ UNCHANGED <<vehicles, orders, target, call, exactVars, rcrsVars, psaVars>>

\* followRoute(vehicle, route, maxTotalDistance) on each of the three routes.
CallFollowRoute ==
    /\ pc = "routed"
    /\ returned.follow = null
    /\ returned' = [returned EXCEPT !.follow =
            [name \in TspRouteNames |->
                followRoute(vehicles[1],
                            LocationsOf(returned.exact[name].stops, orders),
                            Infinity)]]
    /\ UNCHANGED <<vehicles, orders, pc, target, call, exactVars, rcrsVars, psaVars>>

\* updateRouteStats(route, vehicle, ...) on each of the three routes.
CallUpdateRouteStats ==
    /\ pc = "routed"
    /\ returned.rcrs = null
    /\ returned' = [returned EXCEPT !.rcrs =
            [name \in TspRouteNames |->
                updateRouteStats([stops |-> returned.exact[name].stops], vehicles[1],
                                 orders, vehicles, PsaEnv.D, PsaEnv.S)]]
    /\ UNCHANGED <<vehicles, orders, pc, target, call, exactVars, rcrsVars, psaVars>>

\* recalculateStats(sol) on the solution made of each of the three routes.
CallRecalculateStats ==
    /\ pc = "routed"
    /\ returned.worker = null
    /\ returned' = [returned EXCEPT !.worker =
            [name \in TspRouteNames |->
                recalculateStats(
                    [routes |-> (vehicles[1].id :>
                                    [stops |-> returned.exact[name].stops])],
                    PsaEnv)]]
    /\ UNCHANGED <<vehicles, orders, pc, target, call, exactVars, rcrsVars, psaVars>>

NextEmpty ==
    CallSolveTSP \/ CallFollowRoute \/ CallUpdateRouteStats \/ CallRecalculateStats

SpecEmpty == InitEmpty /\ [][NextEmpty]_vars

----------------------------------------------------------------------------
(* Reference definitions for the claims about the exact solvers: the       *)
(* feasible routes and their metrics, defined from the problem alone.      *)

RECURSIVE SumLoads(_)
SumLoads(T) ==
    IF T = {} THEN 0
    ELSE LET o == CHOOSE x \in T : TRUE IN orders[o + 1].load + SumLoads(T \ {o})

RECURSIVE RefExtend(_, _, _, _)
\* Every completion of prefix (orders picked, orders delivered) to a route over
\* the order indices T in which each pickup precedes its delivery and the load
\* carried never exceeds the capacity.
RefExtend(T, prefix, picked, delivered) ==
    IF delivered = T THEN {prefix}
    ELSE
      UNION ({RefExtend(T, Append(prefix, [type |-> "pickup", orderIndex |-> o]),
                        picked \cup {o}, delivered) :
                o \in {x \in T \ picked :
                        SumLoads((picked \ delivered) \cup {x}) <= LoadScale}}
             \cup
             {RefExtend(T, Append(prefix, [type |-> "delivery", orderIndex |-> o]),
                        picked, delivered \cup {o}) :
                o \in picked \ delivered})

RefRoutes(T) == RefExtend(T, <<>>, {}, {})

RefLoc(stop) ==
    IF stop.type = "pickup" THEN orders[stop.orderIndex + 1].pickupLocation
    ELSE orders[stop.orderIndex + 1].deliveryLocation

\* The orders on board after the first k stops of route.
RefOnBoard(route, k) ==
    {o \in 0 .. (Len(orders) - 1) :
        /\ \E i \in 1 .. k : route[i] = [type |-> "pickup", orderIndex |-> o]
        /\ ~ \E i \in 1 .. k : route[i] = [type |-> "delivery", orderIndex |-> o]}

RefLeg(v, route, k) ==
    IF k = 1 THEN distanceCalc(vehicles[v + 1].startLocation, RefLoc(route[1]))
    ELSE distanceCalc(RefLoc(route[k - 1]), RefLoc(route[k]))

RECURSIVE RefSumLegs(_, _, _, _)
RefSumLegs(v, route, k, emptyOnly) ==
    IF k > Len(route) THEN 0
    ELSE (IF emptyOnly /\ RefOnBoard(route, k - 1) # {} THEN 0 ELSE RefLeg(v, route, k))
            + RefSumLegs(v, route, k + 1, emptyOnly)

RefMetric(v, route, metric) ==
    IF metric = "dist" THEN RefSumLegs(v, route, 1, FALSE)
    ELSE IF metric = "empty" THEN RefSumLegs(v, route, 1, TRUE)
    ELSE RefSumLegs(v, route, 1, FALSE) * vehicles[v + 1].priceKm

MinOf(S) == IF S = {} THEN Infinity ELSE CHOOSE x \in S : \A y \in S : x <= y

\* The least metric of a feasible route of vehicle v over the orders T.
RefRouteMin(v, T, metric) ==
    IF T = {} THEN 0 ELSE MinOf({RefMetric(v, r, metric) : r \in RefRoutes(T)})

RECURSIVE RefSumVehicles(_, _, _)
RefSumVehicles(a, v, metric) ==
    IF v >= Len(vehicles) THEN 0
    ELSE LET here == RefRouteMin(v, {o \in DOMAIN a : a[o] = v}, metric)
             rest == RefSumVehicles(a, v + 1, metric)
         IN IF here >= Infinity \/ rest >= Infinity THEN Infinity ELSE here + rest

\* The least metric over all ways of giving every order to exactly one vehicle.
RefOptimum(metric) ==
    MinOf({RefSumVehicles(a, 0, metric) :
            a \in [0 .. (Len(orders) - 1) -> 0 .. (Len(vehicles) - 1)]})

Solved == pc \in {"solved", "compared"}

ThreeSolutions ==
    {solveResult.bestDistanceSolution, solveResult.bestPriceSolution,
     solveResult.bestEmptySolution}

\* The routes of the three returned solutions, with their vehicle ids.
ReturnedRoutes ==
    UNION {{<<id, s.routes[id]>> : id \in DOMAIN s.routes} : s \in ThreeSolutions}

----------------------------------------------------------------------------
(* Claims about the exact solvers.                                         *)

C2_SizeGuard ==
    /\ pc = "thrown" =>
            /\ Len(vehicles) > 7 \/ Len(orders) > 7
            /\ solveResult = [error |-> "Problem too large"]
            /\ solver = NewSolver
    /\ Solved =>
            /\ Len(vehicles) <= 7 /\ Len(orders) <= 7
            /\ solveResult.bestDistanceSolution.totalDistance \in {0, Infinity}
    /\ pc = "idle" => solveResult = null

\* solveSync has thrown on a problem of 1 vehicle and 8 orders.
C2_Witness ==
    /\ pc = "thrown"
    /\ Len(vehicles) = 1
    /\ Len(orders) = 8

\* The stops of route that serve the order orderId, by type.
StopsAt(stops, orderId, type) ==
    {k \in 1 .. Len(stops) : stops[k] = [type |-> type, orderId |-> orderId]}

\* C3: in each returned solution that is not the Infinity sentinel, every order
\* of the problem is served by exactly one route, with one pickup stop and one
\* delivery stop (vehicle ids being unique).
C3_EveryOrderOnce ==
    Solved =>
        \A s \in ThreeSolutions :
            s # emptySolution =>
                \A o \in 1 .. Len(orders) :
                    /\ Cardinality({id \in DOMAIN s.routes :
                            \E k \in 1 .. Len(s.routes[id].stops) :
                                s.routes[id].stops[k].orderId = orders[o].id}) = 1
                    /\ \A id \in DOMAIN s.routes :
                        (\E k \in 1 .. Len(s.routes[id].stops) :
                                s.routes[id].stops[k].orderId = orders[o].id)
                        => /\ Cardinality(StopsAt(s.routes[id].stops,
                                                  orders[o].id, "pickup")) = 1
                           /\ Cardinality(StopsAt(s.routes[id].stops,
                                                  orders[o].id, "delivery")) = 1

\* A solved problem of two orders whose best-distance solution gives one order
\* to each of two vehicles.
C3_Witness ==
    /\ Solved
    /\ Len(orders) = 2
    /\ Cardinality(DOMAIN solveResult.bestDistanceSolution.routes) = 2

RECURSIVE SumLoadsOfIds(_)
SumLoadsOfIds(ids) ==
    IF ids = {} THEN 0
    ELSE LET id == CHOOSE x \in ids : TRUE
         IN OrderById(orders, id).load + SumLoadsOfIds(ids \ {id})

\* The running load after the first k stops: the loads of the orders picked up
\* and not yet delivered.
RunningLoad(stops, k) ==
    SumLoadsOfIds({id \in {stops[i].orderId : i \in 1 .. k} :
        /\ \E i \in 1 .. k : stops[i] = [type |-> "pickup", orderId |-> id]
        /\ ~ \E i \in 1 .. k : stops[i] = [type |-> "delivery", orderId |-> id]})

RouteIsFeasible(stops, capacity) ==
    /\ \A id \in {stops[i].orderId : i \in 1 .. Len(stops)} :
            /\ Cardinality(StopsAt(stops, id, "pickup")) = 1
            /\ Cardinality(StopsAt(stops, id, "delivery")) = 1
            /\ \A p \in StopsAt(stops, id, "pickup"),
                  d \in StopsAt(stops, id, "delivery") : p < d
    /\ \A k \in 0 .. Len(stops) :
            RunningLoad(stops, k) >= 0 /\ RunningLoad(stops, k) <= capacity
    /\ RunningLoad(stops, Len(stops)) = 0

\* C4: every route the exact solver returns has, for each of its orders, one
\* pickup and one later delivery, a running load within [0, 1] after every
\* prefix, and a running load of 0 at its end.
C4_RoutesFeasible ==
    Solved => \A r \in ReturnedRoutes : RouteIsFeasible(r[2].stops, LoadScale)

\* A returned route that carries two orders at once, filling the vehicle.
C4_Witness ==
    /\ Solved
    /\ \E r \in ReturnedRoutes :
            /\ Len(r[2].stops) = 4
            /\ r[2].stops[1].type = "pickup" /\ r[2].stops[2].type = "pickup"
            /\ RunningLoad(r[2].stops, 2) = LoadScale

\* No vehicle can serve any non-empty set of orders within maxTotalDistance.
NoRouteWithinLimit ==
    /\ Len(orders) >= 1
    /\ \A v \in 0 .. (Len(vehicles) - 1) :
        \A T \in SUBSET (0 .. (Len(orders) - 1)) :
            T # {} => \A r \in RefRoutes(T) : RefMetric(v, r, "dist") > maxTotalDistance

\* C5 (as claimed): when maxTotalDistance is smaller than the distance of every
\* possible route, solveSync returns the Infinity sentinel in all three slots.
C5_LimitGivesSentinel ==
    (Solved /\ NoRouteWithinLimit) =>
        /\ solveResult.bestDistanceSolution = emptySolution
        /\ solveResult.bestPriceSolution = emptySolution
        /\ solveResult.bestEmptySolution = emptySolution

\* C6 (as claimed): the optimized and the unoptimized solver return the same
\* best total distance, best empty distance and best total price.
C6_SolversAgree ==
    pc = "compared" =>
        /\ solveResult.bestDistanceSolution.totalDistance
                = unoptResult.bestDistanceSolution.totalDistance
        /\ solveResult.bestEmptySolution.emptyDistance
                = unoptResult.bestEmptySolution.emptyDistance
        /\ solveResult.bestPriceSolution.totalPrice
                = unoptResult.bestPriceSolution.totalPrice

\* The orders with a stop in some route of rts.
PlacedOrders(rts) ==
    UNION {{rts[id].stops[k].orderId : k \in 1 .. Len(rts[id].stops)} : id \in DOMAIN rts}

\* C8: at every point of generateRCRS and in the solution it returns, every
\* route is feasible: each order in it has exactly one pickup and, later, exactly
\* one delivery, the running load is at most 1 + 1e-6 after every prefix, and no
\* order has stops in two routes.
C8_RcrsRoutesFeasible ==
    pc \in {"inserting", "returned"} =>
        /\ \A id \in DOMAIN rcrsRoutes :
                RouteIsFeasible(rcrsRoutes[id].stops, MAX_LOAD + LoadEps)
        /\ \A id1, id2 \in DOMAIN rcrsRoutes :
                id1 # id2 =>
                    PlacedOrders([x \in {id1} |-> rcrsRoutes[id1]])
                        \cap PlacedOrders([x \in {id2} |-> rcrsRoutes[id2]]) = {}
        /\ pc = "returned" => rcrsSolution.routes = rcrsRoutes

\* generateRCRS has returned a solution in which one vehicle carries two orders
\* at the same time and the other vehicle serves a third order.
C8_Witness ==
    /\ pc = "returned"
    /\ \E id \in DOMAIN rcrsSolution.routes :
            /\ Len(rcrsSolution.routes[id].stops) = 4
            /\ rcrsSolution.routes[id].stops[2].type = "pickup"
    /\ \E id \in DOMAIN rcrsSolution.routes : Len(rcrsSolution.routes[id].stops) = 2

\* C9 (as claimed): generateRCRS never places an order whose load exceeds 1, and
\* with at least one vehicle it places every order whose load is at most 1.
C9_LoadAboveOneUnplaced ==
    pc = "returned" =>
        /\ \A i \in 1 .. Len(orders) :
                orders[i].load > LoadScale =>
                    orders[i].id \notin PlacedOrders(rcrsSolution.routes)
        /\ Len(vehicles) >= 1 =>
                \A i \in 1 .. Len(orders) :
                    orders[i].load <= LoadScale =>
                        orders[i].id \in PlacedOrders(rcrsSolution.routes)

\* C9 (amended): generateRCRS never places an order whose load exceeds
\* 1 + 1e-6 (the order stays unassigned and the solution is still returned), and
\* with at least one vehicle it places every order whose load is at most
\* 1 + 1e-6, whatever the processing order.
C9_LoadAboveToleranceUnplaced ==
    pc = "returned" =>
        /\ \A i \in 1 .. Len(orders) :
                orders[i].load > LoadScale + LoadEps =>
                    orders[i].id \notin PlacedOrders(rcrsSolution.routes)
        /\ Len(vehicles) >= 1 =>
                \A i \in 1 .. Len(orders) :
                    orders[i].load <= LoadScale + LoadEps =>
                        orders[i].id \in PlacedOrders(rcrsSolution.routes)

\* generateRCRS has returned with an order of load 2.0 left out, an order of
\* load 1.0000005 placed and an order of load 0.5 placed.
C9_Witness ==
    /\ pc = "returned"
    /\ \E i \in 1 .. Len(orders) :
            /\ orders[i].load = 2 * LoadScale
            /\ orders[i].id \notin PlacedOrders(rcrsSolution.routes)
    /\ \E i \in 1 .. Len(orders) :
            /\ orders[i].load = LoadScale + 2
            /\ orders[i].id \in PlacedOrders(rcrsSolution.routes)
    /\ \E i \in 1 .. Len(orders) :
            /\ orders[i].load = LoadScale \div 2
            /\ orders[i].id \in PlacedOrders(rcrsSolution.routes)

----------------------------------------------------------------------------
(* Claims about parallel simulated annealing.                              *)

\* The optimum of the exact solver for the target of the call.
ExactOptimum ==
    LET best == solveSyncSearch(NewSolver, orders, vehicles)[2]
    IN IF target = "EMPTY" THEN best.bestEmptySolution.emptyDistance
       ELSE IF target = "DISTANCE" THEN best.bestDistanceSolution.totalDistance
       ELSE best.bestPriceSolution.totalPrice

\* C7 (as claimed): for every instance the exact solver accepts and every
\* target, the target metric of the solution solve returns is at least the
\* exact solver's optimum for that target.
C7_PsaNotBelowExact ==
    (pc = "psaReturned" /\ ~ProblemTooLarge(orders, vehicles)) =>
        getEnergy(psaResult.solution, target) >= ExactOptimum

\* The least of the initial solution's energy and the energies received.
LeastEnergySeen ==
    MinOf({getEnergy(initialSolution, target)} \cup receivedEnergies)

\* The message the coordinator's handler of worker i is run with when toCoord
\* loses its head in a step that is not a discard.
HandledMessage(i) == Head(toCoord[i])

\* C10: globalBestEnergy never increases; globalBest is replaced only by the
\* solution of a SYNC_REPORT or DONE message whose energy is strictly smaller
\* than globalBestEnergy; so at every moment, and in what solve returns, the
\* best solution's energy is the minimum of the initial solution's energy and
\* the energies of all SYNC_REPORT and DONE messages received.
C10_GlobalBestIsMinimum ==
    /\ [](pc \in {"awaiting", "psaReturned"} =>
            /\ globalBestEnergy = LeastEnergySeen
            /\ getEnergy(globalBest, target) = globalBestEnergy)
    /\ [](pc = "psaReturned" =>
            /\ psaResult.solution = globalBest
            /\ getEnergy(psaResult.solution, target) = LeastEnergySeen)
    /\ [][pc = "awaiting" =>
            /\ globalBestEnergy' <= globalBestEnergy
            /\ (globalBest' # globalBest \/ globalBestEnergy' # globalBestEnergy) =>
                \E i \in WorkerIds :
                    /\ toCoord[i] # <<>>
                    /\ toCoord'[i] = Tail(toCoord[i])
                    /\ HandledMessage(i).type \in {"SYNC_REPORT", "DONE"}
                    /\ HandledMessage(i).energy < globalBestEnergy
                    /\ globalBestEnergy' = HandledMessage(i).energy
                    /\ globalBest' = HandledMessage(i).solution]_vars

\* solve has returned a solution that a worker reported and that is better
\* than the RCRS solution, after reports that did not improve on the best
\* were received as well.
C10_Witness ==
    /\ pc = "psaReturned"
    /\ getEnergy(psaResult.solution, target) < getEnergy(initialSolution, target)
    /\ psaResult.solution # initialSolution
    /\ \E e \in receivedEnergies : e > globalBestEnergy
    /\ Len(history) >= 2

\* The types of the messages worker i has posted.
PostedTypes(i) == {posted[i][k] : k \in 1 .. Len(posted[i])}

\* C11: solve returns only after a DONE message of every one of the workers
\* has been processed (every promise resolved, every worker having posted
\* DONE), and once all of them have been processed it does return
\* (globalBest, history).
C11_ReturnsAfterAllDone ==
    /\ [](pc = "psaReturned" =>
            /\ resolved = WorkerIds
            /\ \A i \in WorkerIds : "DONE" \in PostedTypes(i)
            /\ psaResult = [solution |-> globalBest, history |-> history])
    /\ ((pc = "awaiting" /\ resolved = WorkerIds) ~> (pc = "psaReturned"))

\* solve has returned after two workers reported DONE.
C11_Witness ==
    /\ pc = "psaReturned"
    /\ resolved = WorkerIds
    /\ Cardinality(WorkerIds) >= 2

\* An INIT message has been handled by worker i.
InitReceived(i) == workers[i].currentSolution # null

\* C12: every worker that has received INIT eventually posts DONE, whatever
\* INFLUENCE_UPDATE messages it receives.
C12_WorkerEventuallyDone ==
    \A i \in WorkerIds : InitReceived(i) ~> ("DONE" \in PostedTypes(i))

\* A worker that was reheated by an INFLUENCE_UPDATE it adopted has posted
\* DONE, and it ended by its iteration count, too warm to end by temperature.
C12_Witness ==
    /\ pc \in {"awaiting", "psaReturned"}
    /\ \E i \in WorkerIds :
            /\ "DONE" \in PostedTypes(i)
            /\ influenced[i] # null
            /\ influenced[i].after.temperature > influenced[i].before.temperature
            /\ workers[i].temperature >= workers[i].CONFIG.minTemp
            /\ workers[i].iterationCount >= workers[i].CONFIG.maxIterations

\* The positions of the DONE messages among the messages worker i has posted.
DonePositions(i) == {k \in 1 .. Len(posted[i]) : posted[i][k] = "DONE"}

\* C13 (as claimed): for the single INIT message a worker receives it posts
\* DONE at most once, whatever the configuration, and after it has posted
\* DONE it posts no further message.
C13_DoneExactlyOnce ==
    pc \in {"awaiting", "psaReturned"} =>
        \A i \in WorkerIds :
            /\ Cardinality(DonePositions(i)) <= 1
            /\ \A k \in DonePositions(i) : k = Len(posted[i])

\* The coordinator's handler of worker i runs in this step.
CoordHandles(i) ==
    /\ pc = "awaiting"
    /\ toCoord[i] # <<>>
    /\ toCoord'[i] = Tail(toCoord[i])
    /\ totalIterations' = totalIterations + 1

\* C14: for every SYNC_REPORT the coordinator processes from a worker i that
\* is not the last one it posts exactly one INFLUENCE_UPDATE with the same
\* solution and energy to worker i + 1 and to no other worker; a SYNC_REPORT
\* of the last worker and a DONE message are not forwarded; no other step
\* posts to a worker, and worker 0 never receives an INFLUENCE_UPDATE.
C14_ForwardsToNext ==
    /\ [][\A i \in WorkerIds : CoordHandles(i) =>
            IF HandledMessage(i).type = "SYNC_REPORT" /\ i < NumThreads - 1
            THEN toWorker' = [toWorker EXCEPT ![i + 1] =
                                Append(@, [type |-> "INFLUENCE_UPDATE",
                                           solution |-> HandledMessage(i).solution,
                                           energy |-> HandledMessage(i).energy])]
            ELSE toWorker' = toWorker]_vars
    /\ [][(pc = "awaiting" /\ \A i \in WorkerIds : ~CoordHandles(i)) =>
            \A j \in WorkerIds :
                toWorker'[j] = toWorker[j] \/ toWorker'[j] = Tail(toWorker[j])]_vars
    /\ [](pc \in {"awaiting", "psaReturned"} =>
            /\ \A k \in 1 .. Len(toWorker[0]) :
                    toWorker[0][k].type # "INFLUENCE_UPDATE"
            /\ influenced[0] = null)

\* Both workers have reported and are done; the second one has handled the
\* INFLUENCE_UPDATE forwarded from a report of the first that did not improve
\* on the global best.
C14_Witness ==
    /\ pc \in {"awaiting", "psaReturned"}
    /\ resolved = WorkerIds
    /\ \A i \in WorkerIds : "SYNC_REPORT" \in PostedTypes(i)
    /\ influenced[NumThreads - 1] # null
    /\ influenced[NumThreads - 1].msg.energy >= getEnergy(initialSolution, target)
    /\ toWorker[NumThreads - 1] = <<>>

\* Worker j has not ended: its thread is alive and it has its INIT message
\* to handle or is annealing.
StillRunning(j) ==
    /\ workerError[j] = "none"
    /\ toWorker[j] # <<>> \/ workers[j].isRunning

\* C15 (as claimed): when a worker raises an unexpected error, solve fails
\* with the error of that worker, and the coordinator has terminated the
\* workers that are still running.
C15_ErrorTerminatesWorkers ==
    pc = "psaFailed" =>
        /\ \E i \in WorkerIds :
                workerError[i] = "handled" /\ psaResult = [error |-> i]
        /\ \A j \in WorkerIds : StillRunning(j) => j \in terminated

\* The part of C15 the code keeps: the failure of solve carries the error of
\* a worker whose 'error' event was handled and whose promise was pending.
C15_FailsWithWorkerError ==
    pc = "psaFailed" =>
        \E i \in WorkerIds :
            /\ workerError[i] = "handled"
            /\ psaResult = [error |-> i]
            /\ i \notin resolved

\* Every route of the solution is priced at its length times the priceKm of
\* the vehicle whose id is its key, and is empty on at most its length.
RoutesPricedByOwner(solution) ==
    \A id \in DOMAIN solution.routes :
        LET route == solution.routes[id]
        IN /\ route.totalPrice = route.totalDistance * VehicleById(vehicles, id).priceKm
           /\ 0 <= route.emptyDistance
           /\ route.emptyDistance <= route.totalDistance

\* The solutions the workers hold and the ones on their way in messages.
WorkerSolutions ==
    UNION {{workers[i].currentSolution, workers[i].bestLocalSolution} \ {null} :
                i \in WorkerIds}
    \cup UNION {{toCoord[i][k].solution : k \in 1 .. Len(toCoord[i])} : i \in WorkerIds}
    \cup UNION {{toWorker[i][k].solution :
                    k \in {n \in 1 .. Len(toWorker[i]) :
                              toWorker[i][n].type = "INFLUENCE_UPDATE"}} :
                i \in WorkerIds}

\* The three solutions of the exact solver for the problem of the state.
ExactSolutions ==
    LET best == solveSyncSearch(NewSolver, orders, vehicles)[2]
    IN {best.bestDistanceSolution, best.bestPriceSolution, best.bestEmptySolution}

\* C16: for every route produced by the exact solver, by generateRCRS and by
\* the worker's recalculateStats, totalPrice equals totalDistance times the
\* priceKm of the vehicle that owns the route, and emptyDistance is at most
\* totalDistance.
C16_PricePerVehicle ==
    /\ pc \in {"awaiting", "psaReturned"} =>
            /\ RoutesPricedByOwner(initialSolution)
            /\ RoutesPricedByOwner(globalBest)
            /\ \A sol \in WorkerSolutions : RoutesPricedByOwner(sol)
    /\ (pc = "psaReturned" /\ ~ProblemTooLarge(orders, vehicles)) =>
            \A sol \in ExactSolutions : RoutesPricedByOwner(sol)

\* solve has returned; a worker ended on a neighbour of the RCRS solution
\* with a route of the vehicle of priceKm 3 that is loaded on a part of its
\* way, and the exact solver has a route for the same problem.
C16_Witness ==
    /\ pc = "psaReturned"
    /\ ~ProblemTooLarge(orders, vehicles)
    /\ \E sol \in ExactSolutions : \E id \in DOMAIN sol.routes :
            sol.routes[id].totalDistance > 0
    /\ \E i \in WorkerIds :
            /\ workers[i].iterationCount > 0
            /\ workers[i].currentSolution.routes # initialSolution.routes
            /\ \E id \in DOMAIN workers[i].currentSolution.routes :
                    LET route == workers[i].currentSolution.routes[id]
                    IN /\ VehicleById(vehicles, id).priceKm = 3
                       /\ route.emptyDistance < route.totalDistance
                       /\ route.emptyDistance > 0

RECURSIVE SumOfRoutes(_, _, _)
\* The sum of a field over the routes with the given ids.
SumOfRoutes(rts, ids, field) ==
    IF ids = {} THEN 0
    ELSE LET id == CHOOSE x \in ids : TRUE
         IN rts[id][field] + SumOfRoutes(rts, ids \ {id}, field)

\* Every entry of routes belongs to a vehicle with stops, and the totals are
\* the sums over the entries: a vehicle without orders adds nothing.
OnlyServingVehicles(solution) ==
    /\ \A id \in DOMAIN solution.routes :
            /\ \E k \in 1 .. Len(vehicles) : vehicles[k].id = id
            /\ Len(solution.routes[id].stops) > 0
    /\ solution.totalDistance < Infinity =>
            /\ solution.totalDistance
                    = SumOfRoutes(solution.routes, DOMAIN solution.routes, "totalDistance")
            /\ solution.emptyDistance
                    = SumOfRoutes(solution.routes, DOMAIN solution.routes, "emptyDistance")
            /\ solution.totalPrice
                    = SumOfRoutes(solution.routes, DOMAIN solution.routes, "totalPrice")

\* With a single order: a vehicle that another vehicle beats on the metric has
\* no entry in the routes of the solution.
DearerVehicleAbsent(solution, metric) ==
    \A a, b \in 0 .. (Len(vehicles) - 1) :
        RefRouteMin(a, {0}, metric) < RefRouteMin(b, {0}, metric) =>
            vehicles[b + 1].id \notin DOMAIN solution.routes

\* C17: in every solution the exact solver returns, a vehicle that was given
\* no orders has no entry in routes and adds 0 to totalDistance,
\* emptyDistance and totalPrice; when another vehicle serves the order more
\* cheaply for an objective, the more expensive vehicle is absent from the
\* routes of that objective.
C17_EmptyVehicleAbsent ==
    Solved =>
        /\ \A sol \in ThreeSolutions : OnlyServingVehicles(sol)
        /\ Len(orders) = 1 =>
                /\ DearerVehicleAbsent(solveResult.bestDistanceSolution, "dist")
                /\ DearerVehicleAbsent(solveResult.bestPriceSolution, "price")
                /\ DearerVehicleAbsent(solveResult.bestEmptySolution, "empty")

\* One order and two vehicles: the nearer vehicle alone is in the routes of
\* the distance optimum, the cheaper one alone in those of the price optimum.
C17_Witness ==
    /\ Solved
    /\ Len(orders) = 1
    /\ Len(vehicles) = 2
    /\ DOMAIN solveResult.bestDistanceSolution.routes = {vehicles[1].id}
    /\ DOMAIN solveResult.bestPriceSolution.routes = {vehicles[2].id}
    /\ RefRouteMin(0, {0}, "dist") < RefRouteMin(1, {0}, "dist")
    /\ RefRouteMin(1, {0}, "price") < RefRouteMin(0, {0}, "price")

\* Bit b of mask m is set.
BitSet(m, b) == (m \div (2 ^ b)) % 2 = 1

\* The bits of fullMask that are not in assignmentMask.
RemainingBits(assignmentMask, fullMask) ==
    {b \in 0 .. (MaskBits - 1) : BitSet(fullMask, b) /\ ~BitSet(assignmentMask, b)}

\* C18: for every fullMask and every assignmentMask within it,
\* iterateAllSubsets invokes the callback exactly 2^k - 1 times, k being the
\* number of bits of fullMask not in assignmentMask; each value is non-zero,
\* has only remaining bits and so none of assignmentMask, and the values come
\* in strictly descending order (each once); none when nothing remains.
C18_SubsetsEnumerated ==
    (pc = "applied" /\ call.fn = "iterateAllSubsets") =>
        LET remaining == RemainingBits(call.assignmentMask, call.fullMask)
        IN /\ Len(returned) = 2 ^ Cardinality(remaining) - 1
           /\ \A i \in 1 .. Len(returned) :
                /\ returned[i] > 0
                /\ \A b \in 0 .. (MaskBits - 1) :
                        BitSet(returned[i], b) => b \in remaining
                /\ \A b \in 0 .. (MaskBits - 1) :
                        ~(BitSet(returned[i], b) /\ BitSet(call.assignmentMask, b))
                /\ returned[i] < ShiftLeft(1, MaskBits)
           /\ \A i \in 1 .. (Len(returned) - 1) : returned[i] > returned[i + 1]
           /\ \A i, j \in 1 .. Len(returned) : i # j => returned[i] # returned[j]
           /\ remaining = {} => returned = <<>>

\* The subsets of 0b1111 with 0b0101 assigned: 0b1010, 0b1000, 0b0010.
C18_Witness ==
    /\ pc = "applied"
    /\ call = [fn |-> "iterateAllSubsets", assignmentMask |-> 5, fullMask |-> 15]
    /\ returned = <<10, 8, 2>>

RECURSIVE Factorial(_)
Factorial(n) == IF n <= 0 THEN 1 ELSE n * Factorial(n - 1)

\* The positions of the stops of the given type and order in a route.
RouteStopsAt(route, type, orderId) ==
    {k \in 1 .. Len(route) : route[k].type = type /\ route[k].orderId = orderId}

\* C19: for N orders generateAllVehicleRoutes returns exactly (2N)! / 2^N
\* routes, pairwise distinct, each with every pickup and every delivery of
\* the N orders exactly once and each pickup before its delivery.
C19_RouteCount ==
    (pc = "applied" /\ call.fn = "generateAllVehicleRoutes") =>
        LET N == Len(call.orderIds)
            ids == {call.orderIds[k] : k \in 1 .. N}
        IN /\ Len(returned) = Factorial(2 * N) \div (2 ^ N)
           /\ Cardinality({[k \in 1 .. Len(returned[i]) |->
                                <<returned[i][k].type, returned[i][k].orderId>>] :
                            i \in 1 .. Len(returned)}) = Len(returned)
           /\ \A i \in 1 .. Len(returned) :
                /\ Len(returned[i]) = 2 * N
                /\ \A id \in ids :
                        /\ Cardinality(RouteStopsAt(returned[i], "pickup", id)) = 1
                        /\ Cardinality(RouteStopsAt(returned[i], "delivery", id)) = 1
                        /\ \A p \in RouteStopsAt(returned[i], "pickup", id),
                              d \in RouteStopsAt(returned[i], "delivery", id) : p < d

\* The 90 routes of three orders.
C19_Witness ==
    /\ pc = "applied"
    /\ call.fn = "generateAllVehicleRoutes"
    /\ Len(call.orderIds) = 3
    /\ Len(returned) = 90

\* The six fields of a worker that handleInfluence can write.
InfluenceFields(w) ==
    <<w.currentSolution, w.currentEnergy, w.bestLocalSolution, w.bestLocalEnergy,
      w.temperature, w.iterationCount>>

\* C20: a worker that handles INFLUENCE_UPDATE(solution, energy) with
\* energy >= currentEnergy leaves currentSolution, currentEnergy,
\* bestLocalSolution, bestLocalEnergy, temperature and iterationCount
\* unchanged; it adopts the received solution only when
\* energy < currentEnergy.
C20_InfluenceIgnored ==
    pc \in {"awaiting", "psaReturned"} =>
        \A i \in WorkerIds :
            influenced[i] # null =>
                /\ influenced[i].msg.energy >= influenced[i].before.currentEnergy =>
                        InfluenceFields(influenced[i].after)
                            = InfluenceFields(influenced[i].before)
                /\ influenced[i].after.currentSolution
                        # influenced[i].before.currentSolution =>
                        influenced[i].msg.energy < influenced[i].before.currentEnergy

\* A worker has handled an INFLUENCE_UPDATE that carried another solution
\* than its own, of an energy not below its own.
C20_Witness ==
    /\ pc \in {"awaiting", "psaReturned"}
    /\ \E i \in WorkerIds :
            /\ influenced[i] # null
            /\ influenced[i].msg.energy >= influenced[i].before.currentEnergy
            /\ influenced[i].msg.solution # influenced[i].before.currentSolution
            /\ influenced[i].before.iterationCount > 0

\* The greater of two numbers.
MaxOf2(a, b) == IF a >= b THEN a ELSE b

\* Worker i has handled an INFLUENCE_UPDATE whose energy was below its own.
Adopted(i) ==
    /\ influenced[i] # null
    /\ influenced[i].msg.energy < influenced[i].before.currentEnergy

\* C21 (as claimed): after a worker has handled an INFLUENCE_UPDATE it adopts, its
\* currentSolution is the received solution or one feasible mutation of it,
\* currentEnergy is the energy of that currentSolution, bestLocal is
\* replaced by it exactly if currentEnergy improved on the bestLocalEnergy
\* held before, and temperature is max(temperature before, 50).
C21_AdoptsAndPerturbs ==
    pc \in {"awaiting", "psaReturned"} =>
        \A i \in WorkerIds :
            Adopted(i) =>
                LET msg == influenced[i].msg
                    before == influenced[i].before
                    after == influenced[i].after
                IN /\ \/ after.currentSolution = msg.solution
                      \/ /\ after.currentSolution
                                \in generateNeighbor(msg.solution, before.CONFIG, PsaEnv)
                         /\ isValidSolution(after.currentSolution, PsaEnv)
                   /\ after.currentEnergy = calculateEnergy(after.currentSolution, PsaEnv)
                   /\ after.currentEnergy < Infinity
                   /\ IF after.currentEnergy < before.bestLocalEnergy
                      THEN /\ after.bestLocalSolution = after.currentSolution
                           /\ after.bestLocalEnergy = after.currentEnergy
                      ELSE /\ after.bestLocalSolution = before.bestLocalSolution
                           /\ after.bestLocalEnergy = before.bestLocalEnergy
                   /\ after.temperature = MaxOf2(before.temperature, ReheatTemp)

\* The positions of the SYNC_REPORT messages among the messages worker i has
\* posted.
SyncPositions(i) == {k \in 1 .. Len(posted[i]) : posted[i][k] = "SYNC_REPORT"}

\* The batches of batchSize iterations worker i has executed in full.
BatchesExecuted(i) == workers[i].iterationCount \div workers[i].CONFIG.batchSize

\* C22 (as claimed): a worker posts a SYNC_REPORT after every syncInterval-th
\* batch of batchSize iterations it has executed: the reports it has posted
\* are as many as the batches it has executed, divided by syncInterval.
C22_ReportEverySyncInterval ==
    pc \in {"awaiting", "psaReturned"} =>
        \A i \in WorkerIds :
            workers[i].currentSolution # null =>
                Cardinality(SyncPositions(i))
                    = BatchesExecuted(i) \div workers[i].CONFIG.syncInterval

\* The solutions worker i holds or has posted and has not had processed yet.
WorkerHeldSolutions(i) ==
    {workers[i].currentSolution, workers[i].bestLocalSolution}
        \cup {toCoord[i][k].solution : k \in 1 .. Len(toCoord[i])}

\* The energies worker i holds or has posted and has not had processed yet.
WorkerHeldEnergies(i) ==
    {workers[i].currentEnergy, workers[i].bestLocalEnergy}
        \cup {toCoord[i][k].energy : k \in 1 .. Len(toCoord[i])}

\* C23: an infeasible neighbor (energy +infinity) is never accepted: if the
\* initial solution passes the worker's route check, then in every state of
\* an initialized worker currentSolution and bestLocalSolution pass it,
\* currentEnergy and bestLocalEnergy are finite, and every SYNC_REPORT and
\* DONE carries a solution that passes it and a finite energy.
C23_InfeasibleNeverAccepted ==
    pc \in {"awaiting", "psaReturned"} =>
        (isValidSolution(initialSolution, PsaEnv) =>
            \A i \in WorkerIds :
                workers[i].currentSolution # null =>
                    /\ \A s \in WorkerHeldSolutions(i) : isValidSolution(s, PsaEnv)
                    /\ \A e \in WorkerHeldEnergies(i) : e < Infinity)

\* A worker whose initial solution is feasible and has an infeasible
\* neighbor has iterated, still holds the initial solution and has a report
\* in flight.
C23_Witness ==
    /\ pc = "awaiting"
    /\ isValidSolution(initialSolution, PsaEnv)
    /\ \E i \in WorkerIds :
            /\ workers[i].currentSolution = initialSolution
            /\ workers[i].iterationCount > 0
            /\ Len(toCoord[i]) > 0
            /\ \E n \in generateNeighbor(initialSolution, workers[i].CONFIG, PsaEnv) :
                    ~isValidSolution(n, PsaEnv)

\* The orders that have a stop in some route.
OrdersOf(rts) ==
    UNION {{rts[v].stops[k].orderId : k \in 1 .. Len(rts[v].stops)} : v \in DOMAIN rts}

\* The places <<vehicle id, index>> of the stops of order o of the given type.
PlacesOf(rts, o, type) ==
    UNION {{<<v, k>> : k \in {j \in 1 .. Len(rts[v].stops) :
                                rts[v].stops[j] = [orderId |-> o, type |-> type]}} :
            v \in DOMAIN rts}

\* Every order has one pickup and one delivery, in one route, pickup first.
OnePickupThenDelivery(rts) ==
    \A o \in OrdersOf(rts) :
        /\ Cardinality(PlacesOf(rts, o, "pickup")) = 1
        /\ Cardinality(PlacesOf(rts, o, "delivery")) = 1
        /\ \A p \in PlacesOf(rts, o, "pickup"), d \in PlacesOf(rts, o, "delivery") :
                p[1] = d[1] /\ p[2] < d[2]

\* after is before with one order o taken out and put into route v2, the
\* pickup at an index in [0, |r2|] and the delivery at a later index, at most
\* |r2| + 1, r2 being the route of v2 without o.
ShiftedWithinRange(before, after) ==
    \E o \in OrdersOf(before), v2 \in DOMAIN before :
        /\ \A v \in DOMAIN before :
                withoutOrder(after[v].stops, o) = withoutOrder(before[v].stops, o)
        /\ LET len2 == Len(withoutOrder(before[v2].stops, o))
           IN \E pIdx \in 0 .. len2 :
                \E dIdx \in (pIdx + 1) .. (len2 + 1) :
                    /\ Len(after[v2].stops) = len2 + 2
                    /\ after[v2].stops[pIdx + 1] = pickupStop(o)
                    /\ after[v2].stops[dIdx + 1] = deliveryStop(o)

\* C24: for a solution in which every order has one pickup and one delivery
\* in one route, pickup first, every result of generateNeighbor has the same
\* routes' keys and the same set of orders, each again with one pickup and
\* one delivery in a single route and the pickup first; and a SHIFT inserts
\* the pickup at an index in [0, |r2|] and the delivery at a later index at
\* most |r2| + 1.
C24_NeighborKeepsOrders ==
    (pc = "applied" /\ call.fn = "generateNeighbor") =>
        \A n \in returned :
            /\ DOMAIN n.routes = DOMAIN call.current.routes
            /\ OrdersOf(n.routes) = OrdersOf(call.current.routes)
            /\ OnePickupThenDelivery(n.routes)
            /\ (call.CONFIG.weights.shift = 10 /\ OrdersOf(call.current.routes) # {}) =>
                    ShiftedWithinRange(call.current.routes, n.routes)

\* generateNeighbor was applied, with the default weights, to a solution of
\* two routes in use, one of them of two orders, and has results that differ
\* from it and a result with the same routes.
C24_Witness ==
    /\ pc = "applied"
    /\ call.fn = "generateNeighbor"
    /\ call.CONFIG.weights = DefaultConfig.weights
    /\ OnePickupThenDelivery(call.current.routes)
    /\ \A v \in DOMAIN call.current.routes : Len(call.current.routes[v].stops) >= 2
    /\ \E v \in DOMAIN call.current.routes : Len(call.current.routes[v].stops) >= 4
    /\ \E n \in returned : n.routes # call.current.routes
    /\ \E n \in returned : n.routes = call.current.routes

\* Worker i handles the INIT message at the head of its channel in this step.
HandlesInit(i) ==
    /\ pc = "awaiting"
    /\ toWorker[i] # <<>>
    /\ Head(toWorker[i]).type = "INIT"
    /\ toWorker'[i] = Tail(toWorker[i])
    /\ workers'[i] # workers[i]

\* The temperatures k or fewer iterations leave of temperature t.
RECURSIVE CooledFrom(_, _, _)
CooledFrom(t, rate, k) ==
    IF k = 0 THEN {t}
    ELSE {t} \cup CooledFrom((t * rate.num) \div rate.den, rate, k - 1)

\* C25 (as claimed): a worker starts annealing at the jittered temperature
\* the coordinator sent to it: when it has handled INIT, its temperature is
\* the initialTemp of the INIT message, lowered by the iterations it has run
\* since, and that initialTemp lies in [0.9, 1.2) times the initialTemp of
\* the worker's configuration.
C25_StartsAtJitteredTemp ==
    [][\A i \in WorkerIds :
            HandlesInit(i) =>
                LET sent == Head(toWorker[i]).data.initialTemp
                    w == workers'[i]
                IN /\ w.temperature
                        \in CooledFrom(sent, w.CONFIG.coolingRate, w.iterationCount)
                   /\ 10 * sent >= 9 * w.CONFIG.initialTemp
                   /\ 10 * sent < 12 * w.CONFIG.initialTemp]_vars

\* Worker i has not handled its INIT message yet.
Uninitialized(i) == workers[i].currentSolution = null

\* C26: on every channel from the coordinator to a worker the INIT message
\* comes before any INFLUENCE_UPDATE: INIT is the first message of the
\* channel of a worker that is not initialized yet and is in no channel
\* otherwise, and no worker was uninitialized when it handled an
\* INFLUENCE_UPDATE.
C26_InitPrecedesInfluence ==
    pc \in {"awaiting", "psaReturned"} =>
        \A i \in WorkerIds :
            /\ Uninitialized(i) =>
                    toWorker[i] # <<>> /\ Head(toWorker[i]).type = "INIT"
            /\ \A k \in 1 .. Len(toWorker[i]) :
                    toWorker[i][k].type = "INIT" => k = 1 /\ Uninitialized(i)
            /\ influenced[i] # null => influenced[i].before.currentSolution # null

\* An INFLUENCE_UPDATE waits behind the INIT message of a worker that is not
\* initialized yet.
C26_Witness ==
    /\ pc = "awaiting"
    /\ \E i \in WorkerIds :
            /\ Uninitialized(i)
            /\ Len(toWorker[i]) >= 2
            /\ toWorker[i][2].type = "INFLUENCE_UPDATE"

\* C27 (as claimed): for each stop sequence solveTSP returns, the empty
\* distance the exact solver accounted for it (a leg is empty iff
\* pickedUpMask = deliveredMask before it), the one followRoute computes,
\* the one updateRouteStats computes and the one recalculateStats computes
\* are the same, whatever the load factors of the orders.
C27_EmptyDistancesAgree ==
    (pc = "routed" /\ call.fn = "solveTSP" /\ returned.exact # null) =>
        \A name \in TspRouteNames :
            LET e == returned.exact[name].emptyDistance
            IN /\ returned.follow # null => returned.follow[name].emptyDistance = e
               /\ returned.rcrs # null => returned.rcrs[name].emptyDistance = e
               /\ returned.worker # null =>
                    /\ returned.worker[name].emptyDistance = e
                    /\ returned.worker[name].routes[vehicles[1].id].emptyDistance = e

\* C28 (as claimed): over the life of a worker bestLocalEnergy never
\* increases and is at most currentEnergy at every batch boundary, and
\* nothing is reset once annealing has started: the energy of every report
\* the worker has posted, a bestLocalEnergy of an earlier moment, is not
\* below its bestLocalEnergy; and a worker that has iterated and was not
\* reheated is no longer at its initial temperature.
C28_ProgressNeverDiscarded ==
    pc \in {"awaiting", "psaReturned"} =>
        \A i \in WorkerIds :
            ~Uninitialized(i) =>
                /\ workers[i].bestLocalEnergy <= workers[i].currentEnergy
                /\ \A k \in 1 .. Len(toCoord[i]) :
                        toCoord[i][k].energy >= workers[i].bestLocalEnergy
                /\ (workers[i].iterationCount > 0 /\ influenced[i] = null) =>
                        workers[i].temperature < workers[i].CONFIG.initialTemp

\* C29 (as claimed): the coordinator never posts an INFLUENCE_UPDATE to a
\* worker it has terminated: when it handles a SYNC_REPORT of a worker i
\* that is not the last one and so posts to worker i + 1, it has not handled
\* the DONE of worker i + 1 yet.
C29_NoPostToTerminated ==
    [][\A i \in WorkerIds :
            (/\ CoordHandles(i)
             /\ HandledMessage(i).type = "SYNC_REPORT"
             /\ i < NumThreads - 1
             /\ toWorker'[i + 1] # toWorker[i + 1]) =>
                (i + 1) \notin terminated]_vars

\* C30 (as claimed): under the default configuration every worker posts at
\* least one SYNC_REPORT before its DONE.
C30_DefaultRunReports ==
    (pc \in {"awaiting", "psaReturned"} /\ saConfig = null) =>
        \A i \in WorkerIds :
            \A d \in DonePositions(i) : \E k \in SyncPositions(i) : k < d

====
